---------------------------- MODULE Spec2Model ----------------------------
(***************************************************************************)
(* SmartMarketWatch: the enrichment and anomaly-scoring pipeline.          *)
(*                                                                         *)
(* The model follows one collection of product records from the end of     *)
(* the Quality Gate (DataCleaner, after supprimer_doublons) through        *)
(* FeatureExtractor and AdvancedAIPipeline (AdvancedNLPAnalyzer,           *)
(* AnomalyDetector, business metrics, save).                               *)
(*                                                                         *)
(* Units.  Prices are whole Dhs.  Values the code rounds to one decimal    *)
(* (Taux_Completude, Rating_Clean, Performance_Index, Score_Qualite,       *)
(* Indice_Confiance, Score_Fiabilite_Vendeur, sentiment scores) are kept   *)
(* in tenths; values rounded to two decimals (Reduction_Reelle,            *)
(* RQP_Score) in hundredths; Anomalie_Score_Normalized in thousandths.     *)
(* Arithmetic is exact; round() is round-half-even on the exact value.     *)
(*                                                                         *)
(* A nullable number (None / NaN in the code) is <<>> when absent and      *)
(* <<v>> when present.  A nullable string uses the value NaN.              *)
(***************************************************************************)
EXTENDS Integers, Sequences, FiniteSets, TLC

VARIABLES
    pc,            \* the step the orchestrators run next
    df,            \* self.df of the component that is running: a sequence of rows
    cols,          \* the columns df holds
    cleaned_csv,   \* data/processed/cleaned_data.csv
    enriched_csv,  \* data/processed/enriched_data.csv
    advanced_csv,  \* data/processed/ai_advanced_complete.csv
    results,       \* what each stage returned to its caller
    env,           \* the optional libraries of the installation
    faults,        \* unexpected exceptions the environment may still raise
    raised,        \* the steps in which an exception was raised so far
    ran,           \* the steps that ran to completion so far
    survivors,     \* the keys of the records the run started with, in order
    stats,         \* DataCleaner.stats
    lib,           \* what the libraries answered on this collection so far
    run,           \* 1 in the first run of the pipeline, 2 in the second
    input,         \* where the run started: the step and the collection
    first_run,     \* the files and results the first run left
    called,        \* the stages main.executer_pipeline_complet called, in order
    loaded,        \* the file the database stage loaded
    scraper,       \* the JumiaScraper: driver, products and its configuration
    page,          \* the page lancer_scraping is at
    attempt,       \* the attempt scraper_page is at
    history        \* the loads of pages so far, with what each gave

\* What only the orchestrator of the stages and the scraper touch.
outer == <<called, loaded, scraper, page, attempt, history>>

vars == <<pc, df, cols, cleaned_csv, enriched_csv, advanced_csv, results,
          env, faults, raised, ran, survivors, stats, lib, run, input, first_run,
          outer>>

\* What only a second run of the pipeline touches.
twice == <<run, input, first_run, outer>>

\* The orchestrator of the stages and the scraper at rest.
Idle ==
    /\ called = <<>>
    /\ loaded = <<>>
    /\ scraper = [driver |-> "None", products |-> <<>>, retry_count |-> 0,
                  pages_a_scraper |-> 0]
    /\ page = 0
    /\ attempt = 0
    /\ history = <<>>

-----------------------------------------------------------------------------
(* Bounds of the model *)

\* Invocations of main, one after the other on one disk.
MaxRuns == 3

\* Pages of the listing, attempts for each page, and products on a page.
MaxPages == 2
MaxRetries == 2
MaxProducts == 1

\* Longest collection of the batch family of initial states.
MaxRecords == 4
\* Length of the long single-tier collections (a z-score above 3 needs 11 rows).
ZBatch == 11
\* Longest collection of the initial states in which steps may fail.
MaxFaultRecords == 2
\* Unexpected exceptions injected in one run.
MaxFaults == 1
\* Longest collection of the runs that are repeated.
MaxTwice == 3
\* Length of the collections whose rows all differ in value ratio (with five
\* rows p75 and p90 fall between different neighbours).
GradedLen == 5
\* Longest price text of the exhaustive family of price texts.
MaxPriceText == 3
\* Most pieces of a rating text of the exhaustive family of rating texts.
MaxRatingPieces == 3
\* Longest raw file of the family that varies accessories and image references.
MaxGate == 3

-----------------------------------------------------------------------------
(* Nullable values and arithmetic helpers *)

None == <<>>
Some(v) == <<v>>
notna(x) == x /= <<>>
isna(x) == x = <<>>
Val(x) == x[1]
NaN == "NaN"
\* A CSV file: absent, or the rows and columns written to it.
NoFile == [exists |-> FALSE, rows |-> <<>>, cols |-> {}]
File(rows, columns) == [exists |-> TRUE, rows |-> rows, cols |-> columns]

Min(a, b) == IF a <= b THEN a ELSE b
Max(a, b) == IF a >= b THEN a ELSE b

\* round(n/d) to the nearest integer, ties to the even one (Python's round), d > 0.
RoundHalfEven(n, d) ==
    LET q == n \div d
        r == n % d
    IN  IF 2 * r < d THEN q
        ELSE IF 2 * r > d THEN q + 1
        ELSE IF q % 2 = 0 THEN q ELSE q + 1

MinOf(s) == CHOOSE m \in {s[i] : i \in 1..Len(s)} : \A i \in 1..Len(s) : m <= s[i]
MaxOf(s) == CHOOSE m \in {s[i] : i \in 1..Len(s)} : \A i \in 1..Len(s) : m >= s[i]

RECURSIVE SumSeq(_)
SumSeq(s) == IF s = <<>> THEN 0 ELSE s[1] + SumSeq(Tail(s))

RECURSIVE SumSq(_)
SumSq(s) == IF s = <<>> THEN 0 ELSE s[1] * s[1] + SumSq(Tail(s))

\* Series.quantile(a/b), linear interpolation, as the exact numerator over b.
QuantileTimes(s, a, b) ==
    LET sorted == SortSeq(s, LAMBDA x, y : x < y)
        pos == (Len(s) - 1) * a
        i == pos \div b
        f == pos % b
    IN  IF f = 0 THEN sorted[i + 1] * b
        ELSE sorted[i + 1] * b + f * (sorted[i + 2] - sorted[i + 1])

-----------------------------------------------------------------------------
(* Columns and rows *)

\* The columns DataCleaner holds after the parsing steps and the two filters.
NormalizedCols ==
    {"Titre", "Prix_Actuel_Clean", "Ancien_Prix_Clean", "Reduction_Reelle",
     "Rating_Clean", "Marque", "CPU", "Generation_CPU", "RAM_GB", "Stockage_GB",
     "Type_Stockage", "Etat_Produit"}

\* nettoyer_prix.calculer_reduction: the discount in hundredths of a percent.
calculer_reduction(ancien, actuel) ==
    IF isna(ancien) \/ isna(actuel) \/ Val(ancien) <= 0 THEN 0
    ELSE RoundHalfEven((Val(ancien) - Val(actuel)) * 10000, Val(ancien))

\* A row as DataCleaner holds it after supprimer_doublons.  The columns of the
\* later steps are not there yet (cols says which are): their fields hold a
\* placeholder of the column's type.  Titre is kept as the two counts that
\* _analyze_sentiment_simple takes of it; key is the row's identity.  The last
\* two fields are no columns: they record that the sentiment model raised an
\* exception on the record's title.
NormalizedRow(key, titre, prix, ancien, rating, cpu, gen, ram, sto, etat) ==
    [key |-> key,
     Titre |-> titre,
     Prix_Actuel_Clean |-> prix,
     Ancien_Prix_Clean |-> ancien,
     Reduction_Reelle |-> calculer_reduction(ancien, prix),
     Rating_Clean |-> rating,
     Marque |-> "Hp",
     CPU |-> cpu,
     Generation_CPU |-> gen,
     RAM_GB |-> ram,
     Stockage_GB |-> sto[1],
     Type_Stockage |-> sto[2],
     Etat_Produit |-> etat,
     Taux_Completude |-> 0,
     Gamme |-> "",
     Performance_Index |-> 0,
     Score_Qualite |-> 0,
     RQP_Score |-> 0,
     Est_Bonne_Affaire |-> FALSE,
     Type_Affaire |-> "",
     Anomalie_Prix |-> FALSE,
     Type_Anomalie |-> "",
     Sentiment_Score |-> 0,
     Sentiment_Label |-> "",
     Tags |-> <<>>,
     Sentiment_BERT |-> "",
     Sentiment_Score_BERT |-> 0,
     Anomalie_Prix_ZScore |-> FALSE,
     Anomalie_Prix_IQR |-> FALSE,
     Type_Anomalie_Prix |-> <<>>,
     Anomalie_ML |-> FALSE,
     Anomalie_Score_ML |-> 0,
     Anomalie_Score_Normalized |-> 0,
     Incoherence_Spec_Prix |-> <<>>,
     Severite_Incoherence |-> 0,
     Produit_Suspect |-> FALSE,
     Raisons_Suspicion |-> <<>>,
     Indice_Confiance |-> 0,
     Recommandation_Achat |-> "",
     Score_Fiabilite_Vendeur |-> 0,
     textblob_raised |-> FALSE,
     bert_raised |-> FALSE]

PlainTitle == [pos |-> 0, neg |-> 0]
NoStorage == <<None, NaN>>
Ssd512 == <<Some(512), "SSD">>

\* One row with every scored field varied.
ScoringRows ==
    { NormalizedRow(1, PlainTitle, prix, ancien, rating, cpu, gen, ram, sto, etat) :
        prix \in {None, Some(400), Some(2800), Some(4500), Some(25000)},
        ancien \in {None, Some(10000)},
        rating \in {None, Some(45), Some(100)},
        cpu \in {"i9", "i3", "Celeron", "Autre"},
        gen \in {None, Some(11)},
        ram \in {None, Some(4), Some(8), Some(32)},
        sto \in {NoStorage, Ssd512},
        etat \in {"Neuf", "Non specifie"} }

\* A row of a batch: only the price varies (and with it the tier).
BatchPrices == {None, Some(400), Some(2400), Some(25000)}
BatchRow(key, prix) ==
    NormalizedRow(key, PlainTitle, prix, None, Some(45), "i5", Some(11), Some(8),
                  Ssd512, "Neuf")

Batches(lo, hi) ==
    UNION { { [i \in 1..n |-> BatchRow(i, p[i])] : p \in [1..n -> BatchPrices] } :
            n \in lo..hi }

\* Long collections of one tier: every row at one price but one.
LongBatches ==
    { [i \in 1..ZBatch |-> BatchRow(i, IF i = k THEN Some(out) ELSE Some(base))] :
        k \in 1..ZBatch, out \in {400, 2400}, base \in {400, 2400} }

\* Collections of rows that all differ in price (1000, 2000, ... Dhs) and so in
\* value ratio; one of the rows may lack its price.
GradedBatches ==
    { [i \in 1..GradedLen |-> BatchRow(i, IF i = k THEN None ELSE Some(1000 * i))] :
        k \in 0..GradedLen }

\* One row whose title varies in the sentiment keywords it holds.
SentimentRows ==
    { NormalizedRow(1, [pos |-> p, neg |-> n], Some(4500), None, Some(45), "i5",
                    Some(11), Some(8), Ssd512, "Neuf") : p \in 0..1, n \in 0..1 }

Keys(rows) == [i \in 1..Len(rows) |-> rows[i].key]

-----------------------------------------------------------------------------
(* Steps, faults and the orchestrators' control flow *)

\* An unexpected exception is raised in a step only while the budget lasts.
FaultChoice == IF faults > 0 THEN BOOLEAN ELSE {FALSE}

\* The step ran to its end; the orchestrator goes on with `next`.
Completed(step, next) ==
    /\ pc' = next
    /\ ran' = ran \cup {step}
    /\ UNCHANGED <<raised, faults>>

\* An injected exception left the step; the orchestrator goes on with `next`.
Raised(step, next) ==
    /\ pc' = next
    /\ raised' = raised \cup {step}
    /\ faults' = faults - 1
    /\ UNCHANGED ran

\* An exception the step's own code raises (no budget is spent).
RaisedByCode(step, next) ==
    /\ pc' = next
    /\ raised' = raised \cup {step}
    /\ UNCHANGED <<ran, faults>>

SetCol(c, f(_)) == [i \in 1..Len(df) |-> [df[i] EXCEPT ![c] = f(df[i])]]

\* main.executer_pipeline_complet: the stages a failed cleaning skips.
CleaningFailed ==
    results' = [results EXCEPT !.nettoyage = "False", !.enrichissement = "False",
                               !.ia_avancee = "False"]

\* main.executer_pipeline_complet: the stage a failed enrichment skips.
EnrichmentFailed ==
    results' = [results EXCEPT !.enrichissement = "False", !.ia_avancee = "False"]

-----------------------------------------------------------------------------
(* DataCleaner, from the completeness step on *)

\* calculer_score that holds a brand or a processor family "Autre" to be
\* missing.
calculer_score_completude_known(row) ==
    LET remplis ==
            (IF notna(row.Prix_Actuel_Clean) THEN 1 ELSE 0)
          + (IF row.Marque \notin {NaN, "Autre"} THEN 1 ELSE 0)
          + (IF row.CPU \notin {NaN, "Autre"} THEN 1 ELSE 0)
          + (IF notna(row.RAM_GB) THEN 1 ELSE 0)
          + (IF notna(row.Stockage_GB) THEN 1 ELSE 0)
          + (IF notna(row.Rating_Clean) THEN 1 ELSE 0)
    IN  RoundHalfEven(remplis * 1000, 6)

\* calculer_completude.calculer_score: percentage (tenths) of the six fields filled.
calculer_score_completude(row) ==
    LET remplis ==
            (IF notna(row.Prix_Actuel_Clean) THEN 1 ELSE 0)
          + (IF row.Marque /= NaN THEN 1 ELSE 0)
          + (IF row.CPU /= NaN THEN 1 ELSE 0)
          + (IF notna(row.RAM_GB) THEN 1 ELSE 0)
          + (IF notna(row.Stockage_GB) THEN 1 ELSE 0)
          + (IF notna(row.Rating_Clean) THEN 1 ELSE 0)
    IN  RoundHalfEven(remplis * 1000, 6)

\* determiner_gamme with the entry rule tried before the high rule.
determiner_gamme_entry_first(row) ==
    LET prix == row.Prix_Actuel_Clean
        cpu == row.CPU
        ram == row.RAM_GB
    IN  IF isna(prix) THEN "Non classe"
        ELSE IF Val(prix) < 2500 \/ cpu \in {"Celeron", "Pentium", "i3"}
                \/ (notna(ram) /\ Val(ram) <= 4)
             THEN "Entree de gamme"
        ELSE IF Val(prix) > 5000 \/ cpu \in {"i7", "i9", "Ryzen 7", "Ryzen 9"}
                \/ (notna(ram) /\ Val(ram) >= 16)
             THEN "Haut de gamme"
        ELSE "Milieu de gamme"

\* classifier_par_gamme.determiner_gamme
determiner_gamme(row) ==
    LET prix == row.Prix_Actuel_Clean
        cpu == row.CPU
        ram == row.RAM_GB
    IN  IF isna(prix) THEN "Non classe"
        ELSE IF Val(prix) > 5000 \/ cpu \in {"i7", "i9", "Ryzen 7", "Ryzen 9"}
                \/ (notna(ram) /\ Val(ram) >= 16)
             THEN "Haut de gamme"
        ELSE IF Val(prix) < 2500 \/ cpu \in {"Celeron", "Pentium", "i3"}
                \/ (notna(ram) /\ Val(ram) <= 4)
             THEN "Entree de gamme"
        ELSE "Milieu de gamme"

\* DataCleaner.executer_pipeline_complet: a step that raises ends the loop with False.
DC_StepStats(step, next, newdf, newcols, newstats) ==
    /\ pc = step
    /\ \E fail \in FaultChoice :
         IF fail
         THEN /\ Raised(step, "done")
              /\ CleaningFailed
              /\ UNCHANGED <<df, cols, stats>>
         ELSE /\ Completed(step, next)
              /\ df' = newdf
              /\ cols' = newcols
              /\ stats' = newstats
              /\ UNCHANGED results
    /\ UNCHANGED <<cleaned_csv, enriched_csv, advanced_csv, env, survivors, lib, twice>>

\* A step that leaves the counters of the report alone.
DC_Step(step, next, newdf, newcols) == DC_StepStats(step, next, newdf, newcols, stats)

DC_calculer_completude ==
    DC_Step("DC.calculer_completude", "DC.classifier_par_gamme",
            SetCol("Taux_Completude", calculer_score_completude),
            cols \cup {"Taux_Completude"})

DC_classifier_par_gamme ==
    DC_Step("DC.classifier_par_gamme", "DC.sauvegarder_donnees_nettoyees",
            SetCol("Gamme", determiner_gamme), cols \cup {"Gamme"})

DC_sauvegarder_donnees_nettoyees ==
    /\ pc = "DC.sauvegarder_donnees_nettoyees"
    /\ \E fail \in FaultChoice :
         IF fail
         THEN /\ Raised(pc, "done")
              /\ CleaningFailed
              /\ UNCHANGED <<cleaned_csv, stats>>
         ELSE /\ Completed(pc, "DC.generer_rapport_qualite")
              /\ cleaned_csv' = File(df, cols)
              /\ stats' = [stats EXCEPT !.produits_finaux = Len(df)]
              /\ UNCHANGED results
    /\ UNCHANGED <<df, cols, enriched_csv, advanced_csv, env, survivors, lib, twice>>

\* The report is written to data/reports; the last step of the loop, after which
\* executer_pipeline_complet returns True and main starts the enrichment.
DC_generer_rapport_qualite ==
    /\ pc = "DC.generer_rapport_qualite"
    /\ \E fail \in FaultChoice :
         IF fail
         THEN /\ Raised(pc, "done")
              /\ CleaningFailed
         ELSE /\ Completed(pc, "FE.charger_donnees")
              /\ results' = [results EXCEPT !.nettoyage = "True"]
    /\ UNCHANGED <<df, cols, cleaned_csv, enriched_csv, advanced_csv, env, survivors, stats, lib, twice>>

-----------------------------------------------------------------------------
(* FeatureExtractor *)

\* calculer_score_performance.cpu_scores, with .get(cpu, 0)
cpu_scores(cpu) ==
    CASE cpu \in {"i9", "Ryzen 9"} -> 100
      [] cpu \in {"i7", "Ryzen 7"} -> 85
      [] cpu \in {"i5", "Ryzen 5"} -> 60
      [] cpu \in {"i3", "Ryzen 3"} -> 35
      [] cpu = "Pentium" -> 20
      [] cpu = "Celeron" -> 10
      [] OTHER -> 0

\* calculer_score_performance.calculer_score: Performance_Index in tenths.
calculer_score_performance_row(row) ==
    LET ram == row.RAM_GB
        stockage == row.Stockage_GB
        gen == row.Generation_CPU
        s_cpu == cpu_scores(row.CPU) * 4
        s_ram == IF isna(ram) THEN 0
                 ELSE IF Val(ram) >= 32 THEN 300
                 ELSE IF Val(ram) >= 16 THEN 250
                 ELSE IF Val(ram) >= 8 THEN 180
                 ELSE IF Val(ram) >= 4 THEN 100
                 ELSE 0
        s_sto == IF isna(stockage) THEN 0
                 ELSE (IF Val(stockage) >= 512 THEN 150
                       ELSE IF Val(stockage) >= 256 THEN 100
                       ELSE IF Val(stockage) >= 128 THEN 50
                       ELSE 0)
                      + (IF row.Type_Stockage = "SSD" THEN 50 ELSE 0)
        s_gen == IF isna(gen) THEN 0
                 ELSE IF Val(gen) >= 11 THEN 100
                 ELSE IF Val(gen) >= 8 THEN 70
                 ELSE IF Val(gen) >= 6 THEN 40
                 ELSE IF Val(gen) >= 4 THEN 20
                 ELSE 0
    IN  Min(s_cpu + s_ram + s_sto + s_gen, 1000)

\* calculer_score_qualite.etat_scores, with .get(etat, 0)
etat_scores(etat) ==
    CASE etat = "Neuf" -> 10
      [] etat = "Remis a neuf" -> 7
      [] etat = "Occasion" -> 4
      [] etat = "Non specifie" -> 2
      [] OTHER -> 0

\* calculer_score_qualite.calculer_score with the discount term taken whatever
\* its sign.
calculer_score_qualite_signed(row) ==
    LET s_perf == row.Performance_Index * 80
        s_rating == IF notna(row.Rating_Clean) THEN Val(row.Rating_Clean) * 1200 ELSE 0
        s_compl == row.Taux_Completude * 30
        s_etat == etat_scores(row.Etat_Produit) * 2000
        s_bonus == Min(row.Reduction_Reelle, 10000)
    IN  Min(RoundHalfEven(s_perf + s_rating + s_compl + s_etat + s_bonus, 200), 1000)

\* calculer_score_qualite.calculer_score: Score_Qualite in tenths.  The sum is
\* taken in units of 1/2000 of a point, in which every term is whole.
calculer_score_qualite_row(row) ==
    LET s_perf == row.Performance_Index * 80
        s_rating == IF notna(row.Rating_Clean) THEN Val(row.Rating_Clean) * 1200 ELSE 0
        s_compl == row.Taux_Completude * 30
        s_etat == etat_scores(row.Etat_Produit) * 2000
        s_bonus == IF row.Reduction_Reelle > 0
                   THEN Min(row.Reduction_Reelle, 10000) ELSE 0
    IN  Min(RoundHalfEven(s_perf + s_rating + s_compl + s_etat + s_bonus, 200), 1000)

\* calculer_rapport_qualite_prix.calculer_rqp: RQP_Score in hundredths.
calculer_rqp(row) ==
    IF isna(row.Prix_Actuel_Clean) \/ Val(row.Prix_Actuel_Clean) = 0 THEN 0
    ELSE RoundHalfEven(row.Score_Qualite * 10000, Val(row.Prix_Actuel_Clean))

\* classifier_affaire with the promotion tested before the good deal.
classifier_affaire_promo_first(row, q75x4, q90x10) ==
    LET rqp == row.RQP_Score
        reduction == row.Reduction_Reelle
        score == row.Score_Qualite
    IN  IF rqp * 10 >= q90x10 /\ score >= 700 THEN <<TRUE, "Excellente affaire">>
        ELSE IF reduction >= 4000 /\ score >= 500 THEN <<TRUE, "Promotion interessante">>
        ELSE IF rqp * 4 >= q75x4 /\ score >= 600 THEN <<TRUE, "Bonne affaire">>
        ELSE <<FALSE, "Standard">>

\* detecter_bonnes_affaires.classifier_affaire; q75 is given times 4, q90 times 10.
classifier_affaire(row, q75x4, q90x10) ==
    LET rqp == row.RQP_Score
        reduction == row.Reduction_Reelle
        score == row.Score_Qualite
    IN  IF rqp * 10 >= q90x10 /\ score >= 700 THEN <<TRUE, "Excellente affaire">>
        ELSE IF rqp * 4 >= q75x4 /\ score >= 600 THEN <<TRUE, "Bonne affaire">>
        ELSE IF reduction >= 4000 /\ score >= 500 THEN <<TRUE, "Promotion interessante">>
        ELSE <<FALSE, "Standard">>

\* detecter_anomalies_prix: <<Anomalie_Prix, Type_Anomalie>> of a row.
anomalie_prix_row(row) ==
    LET prix == row.Prix_Actuel_Clean
        performance == row.Performance_Index
        first == IF notna(prix) /\ performance >= 800 /\ Val(prix) < 3000
                 THEN <<TRUE, "Prix suspect (trop bas)">>
                 ELSE IF notna(prix) /\ performance <= 300 /\ Val(prix) > 4000
                 THEN <<TRUE, "Prix suspect (trop eleve)">>
                 ELSE <<FALSE, "Normal">>
    IN  IF row.Gamme = "Haut de gamme" /\ notna(prix) /\ Val(prix) < 2500
        THEN <<TRUE, "Incoherence gamme/prix">>
        ELSE first

\* What TextBlob does with one title: a polarity in tenths (-1 to +1), or an
\* exception (None).
BlobOutcomes == {None, Some(-10), Some(0), Some(5)}

\* analyser_sentiment_description.analyser_sentiment: <<score, label>>.
analyser_sentiment(outcome) ==
    IF isna(outcome) THEN <<0, "Neutre">>
    ELSE IF Val(outcome) > 2 THEN <<Val(outcome), "Positif">>
    ELSE IF Val(outcome) < -2 THEN <<Val(outcome), "Negatif">>
    ELSE <<Val(outcome), "Neutre">>

\* creer_tags_produit.generer_tags
generer_tags(row) ==
    <<row.Gamme>>
    \o (IF row.Marque /= "Autre" THEN <<row.Marque>> ELSE <<>>)
    \o (IF row.Performance_Index >= 800 THEN <<"Haute performance">>
        ELSE IF row.Performance_Index >= 500 THEN <<"Performance correcte">>
        ELSE <<>>)
    \o <<row.Etat_Produit>>
    \o (IF row.Type_Stockage = "SSD" THEN <<"SSD">> ELSE <<>>)
    \o (IF row.Est_Bonne_Affaire THEN <<"Bonne affaire">> ELSE <<>>)
    \o (IF row.Reduction_Reelle >= 3000 THEN <<"Promotion">> ELSE <<>>)


\* FeatureExtractor.executer_pipeline_complet: a step that raises (or returns
\* False) ends the loop with False, and main skips the advanced stage.
FE_StepLib(step, next, newdf, newcols, newlib) ==
    /\ pc = step
    /\ \E fail \in FaultChoice :
         IF fail
         THEN /\ Raised(step, "done")
              /\ EnrichmentFailed
              /\ UNCHANGED <<df, cols, lib>>
         ELSE /\ Completed(step, next)
              /\ df' = newdf
              /\ cols' = newcols
              /\ lib' = newlib
              /\ UNCHANGED results
    /\ UNCHANGED <<cleaned_csv, enriched_csv, advanced_csv, env, survivors, stats, twice>>

\* A step that calls no library.
FE_Step(step, next, newdf, newcols) == FE_StepLib(step, next, newdf, newcols, lib)

FE_charger_donnees ==
    /\ pc = "FE.charger_donnees"
    /\ \E fail \in FaultChoice :
         IF fail \/ cleaned_csv = NoFile
         THEN /\ IF fail THEN Raised(pc, "done") ELSE RaisedByCode(pc, "done")
              /\ EnrichmentFailed
              /\ UNCHANGED <<df, cols>>
         ELSE /\ Completed(pc, "FE.calculer_score_performance")
              /\ df' = cleaned_csv.rows
              /\ cols' = cleaned_csv.cols
              /\ UNCHANGED results
    /\ UNCHANGED <<cleaned_csv, enriched_csv, advanced_csv, env, survivors, stats, lib, twice>>

FE_calculer_score_performance ==
    FE_Step("FE.calculer_score_performance", "FE.calculer_score_qualite",
            SetCol("Performance_Index", calculer_score_performance_row),
            cols \cup {"Performance_Index"})

FE_calculer_score_qualite ==
    FE_Step("FE.calculer_score_qualite", "FE.calculer_rapport_qualite_prix",
            SetCol("Score_Qualite", calculer_score_qualite_row),
            cols \cup {"Score_Qualite"})

FE_calculer_rapport_qualite_prix ==
    FE_Step("FE.calculer_rapport_qualite_prix", "FE.detecter_bonnes_affaires",
            SetCol("RQP_Score", calculer_rqp), cols \cup {"RQP_Score"})

\* The two quantiles are taken once, over the RQP_Score of every row.
FE_detecter_bonnes_affaires ==
    LET rqps == [i \in 1..Len(df) |-> df[i].RQP_Score]
        q75x4 == QuantileTimes(rqps, 3, 4)
        q90x10 == QuantileTimes(rqps, 9, 10)
    IN  FE_Step("FE.detecter_bonnes_affaires", "FE.detecter_anomalies_prix",
                [i \in 1..Len(df) |->
                    [df[i] EXCEPT
                       !.Est_Bonne_Affaire = classifier_affaire(df[i], q75x4, q90x10)[1],
                       !.Type_Affaire = classifier_affaire(df[i], q75x4, q90x10)[2]]],
                cols \cup {"Est_Bonne_Affaire", "Type_Affaire"})

FE_detecter_anomalies_prix ==
    FE_Step("FE.detecter_anomalies_prix", "FE.analyser_sentiment_description",
            [i \in 1..Len(df) |->
                [df[i] EXCEPT !.Anomalie_Prix = anomalie_prix_row(df[i])[1],
                              !.Type_Anomalie = anomalie_prix_row(df[i])[2]]],
            cols \cup {"Anomalie_Prix", "Type_Anomalie"})

\* TextBlob is a function of the text: on titles it has scored before it
\* answers as it did.
BlobAnswers(n) ==
    IF notna(lib.blob) THEN {Val(lib.blob)}
    ELSE [1..n -> IF env.textblob THEN BlobOutcomes ELSE {None}]

\* Without TextBlob every row gets 0.0 / Neutre; with it, each title is scored.
FE_analyser_sentiment_description ==
    \E out \in BlobAnswers(Len(df)) :
        FE_StepLib("FE.analyser_sentiment_description", "FE.creer_tags_produit",
                [i \in 1..Len(df) |->
                    [df[i] EXCEPT
                       !.Sentiment_Score =
                           IF env.textblob THEN analyser_sentiment(out[i])[1] ELSE 0,
                       !.Sentiment_Label =
                           IF env.textblob THEN analyser_sentiment(out[i])[2]
                           ELSE "Neutre",
                       !.textblob_raised = env.textblob /\ isna(out[i])]],
                cols \cup {"Sentiment_Score", "Sentiment_Label"},
                [lib EXCEPT !.blob = Some(out)])

FE_creer_tags_produit ==
    FE_Step("FE.creer_tags_produit", "FE.sauvegarder_donnees_enrichies",
            SetCol("Tags", generer_tags), cols \cup {"Tags"})

\* The last step of the loop: executer_pipeline_complet returns True and main
\* starts the advanced stage on enriched_data.csv.
FE_sauvegarder_donnees_enrichies ==
    /\ pc = "FE.sauvegarder_donnees_enrichies"
    /\ \E fail \in FaultChoice :
         IF fail
         THEN /\ Raised(pc, "done")
              /\ EnrichmentFailed
              /\ UNCHANGED enriched_csv
         ELSE /\ Completed(pc, "AP.load_data")
              /\ enriched_csv' = File(df, cols)
              /\ results' = [results EXCEPT !.enrichissement = "True"]
    /\ UNCHANGED <<df, cols, cleaned_csv, advanced_csv, env, survivors, stats, lib, twice>>

-----------------------------------------------------------------------------
(* AdvancedNLPAnalyzer *)

\* The columns extract_advanced_features adds.  They are read off the title's
\* text; the model keeps track of their presence only.
AdvancedFeatureCols ==
    {"CPU_Marque", "CPU_Serie", "CPU_Modele", "CPU_Generation_Detectee", "RAM_Type",
     "RAM_Frequence", "Stockage_SSD_GB", "Stockage_HDD_GB", "Stockage_NVMe",
     "Stockage_Total_GB", "Ecran_Taille", "Ecran_Resolution_Width",
     "Ecran_Resolution_Height", "Ecran_Type", "Ecran_Tactile", "GPU_Marque",
     "GPU_Serie", "GPU_Modele", "WiFi_Version", "Bluetooth_Version", "USB_Type",
     "Batterie_Capacite", "Batterie_Autonomie"}

\* What the BERT classifier does with one title: "k stars", or an exception (None).
StarOutcomes == {None, Some(1), Some(3), Some(5)}

\* analyze_sentiment_advanced, body of the loop: <<sentiment, score in tenths>>.
sentiment_bert(outcome) ==
    IF isna(outcome) THEN <<"Neutre", 5>>
    ELSE IF Val(outcome) >= 4 THEN <<"Positif", Val(outcome) * 2>>
    ELSE IF Val(outcome) <= 2 THEN <<"Negatif", Val(outcome) * 2>>
    ELSE <<"Neutre", Val(outcome) * 2>>

\* analyser with the comparison of the two counts turned around.
analyser_swapped(titre) ==
    IF titre.pos < titre.neg THEN <<"Positif", 7>>
    ELSE IF titre.neg < titre.pos THEN <<"Negatif", 3>>
    ELSE <<"Neutre", 5>>

\* _analyze_sentiment_simple.analyser, on the keyword counts of the title.
analyser(titre) ==
    IF titre.pos > titre.neg THEN <<"Positif", 7>>
    ELSE IF titre.neg > titre.pos THEN <<"Negatif", 3>>
    ELSE <<"Neutre", 5>>

\* AdvancedNLPAnalyzer.execute_full_pipeline has no handler of its own: an
\* exception leaves it, run_nlp_analysis returns False and the pipeline goes on
\* with the anomaly module.  The analyzer works on the pipeline's own DataFrame,
\* so the columns added before the exception stay.
NLP_StepLib(step, next, newdf, newcols, newlib) ==
    /\ pc = step
    /\ \E fail \in FaultChoice :
         IF fail
         THEN /\ Raised(step, "AD.detect_price_anomalies_statistical")
              /\ UNCHANGED <<df, cols, lib>>
         ELSE /\ Completed(step, next)
              /\ df' = newdf
              /\ cols' = newcols
              /\ lib' = newlib
    /\ UNCHANGED <<cleaned_csv, enriched_csv, advanced_csv, env, results, survivors, stats, twice>>

\* A step that calls no model.
NLP_Step(step, next, newdf, newcols) == NLP_StepLib(step, next, newdf, newcols, lib)

NLP_extract_advanced_features ==
    NLP_Step("NLP.extract_advanced_features", "NLP.analyze_sentiment_advanced",
             df, cols \cup AdvancedFeatureCols)

\* The classifier is a function of the text: on titles it has scored before
\* it answers as it did.
StarAnswers(n) ==
    IF notna(lib.stars) THEN {Val(lib.stars)}
    ELSE [1..n -> IF env.bert THEN StarOutcomes ELSE {None}]

NLP_analyze_sentiment_advanced ==
    \E out \in StarAnswers(Len(df)) :
        NLP_StepLib("NLP.analyze_sentiment_advanced", "NLP.extract_keywords_tfidf",
                 [i \in 1..Len(df) |->
                     LET r == IF env.bert THEN sentiment_bert(out[i])
                              ELSE analyser(df[i].Titre)
                     IN  [df[i] EXCEPT !.Sentiment_BERT = r[1],
                                       !.Sentiment_Score_BERT = r[2],
                                       !.bert_raised = env.bert /\ isna(out[i])]],
                 cols \cup {"Sentiment_BERT", "Sentiment_Score_BERT"},
                 [lib EXCEPT !.stars = Some(out)])

\* extract_keywords_tfidf needs scikit-learn; detect_named_entities needs spaCy.
NLP_extract_keywords_tfidf ==
    NLP_Step("NLP.extract_keywords_tfidf", "NLP.generate_product_summary", df,
             cols \cup (IF env.sklearn THEN {"Keywords_TFIDF"} ELSE {})
                  \cup (IF env.spacy
                        THEN {"Entites_Produit", "Entites_Marque", "Entites_Organisation"}
                        ELSE {}))

NLP_generate_product_summary ==
    NLP_Step("NLP.generate_product_summary", "AD.detect_price_anomalies_statistical",
             df, cols \cup {"Resume_Produit"})

-----------------------------------------------------------------------------
(* AnomalyDetector *)

\* TierIndices without the tier in the mask: the priced rows of every tier.
RECURSIVE TierIndices_all_tiers(_, _, _)
TierIndices_all_tiers(rows, gamme, i) ==
    IF i > Len(rows) THEN <<>>
    ELSE IF notna(rows[i].Prix_Actuel_Clean)
         THEN <<i>> \o TierIndices_all_tiers(rows, gamme, i + 1)
         ELSE TierIndices_all_tiers(rows, gamme, i + 1)

\* self.df.loc[mask, 'Prix_Actuel_Clean'] for one tier: the rows of the tier
\* that hold a price, in the order of the collection.
RECURSIVE TierIndices(_, _, _)
TierIndices(rows, gamme, i) ==
    IF i > Len(rows) THEN <<>>
    ELSE IF rows[i].Gamme = gamme /\ notna(rows[i].Prix_Actuel_Clean)
         THEN <<i>> \o TierIndices(rows, gamme, i + 1)
         ELSE TierIndices(rows, gamme, i + 1)

prix_serie(rows, gamme) ==
    LET idx == TierIndices(rows, gamme, 1)
    IN  [j \in 1..Len(idx) |-> Val(rows[idx[j]].Prix_Actuel_Clean)]

RECURSIVE GCD(_, _)
GCD(a, b) == IF b = 0 THEN a ELSE GCD(b, a % b)

RECURSIVE GCDSeq(_)
GCDSeq(s) == IF s = <<>> THEN 0 ELSE GCD(s[1], GCDSeq(Tail(s)))

\* outliers_z: |z| > 3.  scipy's zscore divides by the population deviation;
\* the fallback divides by pandas' sample deviation, and only when it is > 0.
\* With n values of sum S and sum of squares Q: variance * n^2 = n*Q - S^2.
\* A z-score does not change when the series is shifted or scaled: the prices
\* are taken from their minimum and in units of their common divisor, which
\* keeps the squares small.
outliers_z(x, serie, scipy) ==
    LET n == Len(serie)
        lo == MinOf(serie)
        g == GCDSeq([j \in 1..n |-> serie[j] - lo])
        u == IF g = 0 THEN 1 ELSE g
        reduced == [j \in 1..n |-> (serie[j] - lo) \div u]
        S == SumSeq(reduced)
        Q == SumSq(reduced)
        d == n * ((x - lo) \div u) - S
    IN  IF scipy THEN d * d > 9 * (n * Q - S * S)
        ELSE n * Q - S * S > 0 /\ d * d * (n - 1) > 9 * n * (n * Q - S * S)

\* lower_bound and upper_bound of the IQR method, times 8.
lower_bound8(serie) == 5 * QuantileTimes(serie, 1, 4) - 3 * QuantileTimes(serie, 3, 4)
upper_bound8(serie) == 5 * QuantileTimes(serie, 3, 4) - 3 * QuantileTimes(serie, 1, 4)

outliers_iqr(x, serie) == 8 * x < lower_bound8(serie) \/ 8 * x > upper_bound8(serie)

\* The tiers the loop of detect_price_anomalies_statistical does not skip.
TierAnalysed(rows, gamme) ==
    /\ gamme /= "Non classe"
    /\ Len(TierIndices(rows, gamme, 1)) >= 3

\* detect_price_anomalies_statistical, what one row ends with:
\* <<Anomalie_Prix_ZScore, Anomalie_Prix_IQR, Type_Anomalie_Prix>>.
price_anomaly_row(rows, row, scipy) ==
    LET gamme == row.Gamme
        serie == prix_serie(rows, gamme)
        x == Val(row.Prix_Actuel_Clean)
    IN  IF isna(row.Prix_Actuel_Clean) \/ ~TierAnalysed(rows, gamme)
        THEN <<FALSE, FALSE, <<"Normal">> >>
        ELSE LET z == outliers_z(x, serie, scipy)
                 q == outliers_iqr(x, serie)
             IN  <<z, q,
                   IF ~(z \/ q) THEN <<"Normal">>
                   ELSE IF 8 * x < lower_bound8(serie)
                        THEN <<"Prix anormalement bas", gamme>>
                   ELSE IF 8 * x > upper_bound8(serie)
                        THEN <<"Prix anormalement eleve", gamme>>
                   ELSE <<"Anomalie detectee", gamme>> >>

PriceAnomalyCols == {"Anomalie_Prix_ZScore", "Anomalie_Prix_IQR", "Type_Anomalie_Prix"}

WithPriceAnomaly(row, r) ==
    [row EXCEPT !.Anomalie_Prix_ZScore = r[1], !.Anomalie_Prix_IQR = r[2],
                !.Type_Anomalie_Prix = r[3]]

\* execute_full_pipeline, first try block.  The handler of this block sets the
\* three columns to their defaults.  The method reads Gamme and
\* Prix_Actuel_Clean and raises KeyError when the collection lacks one.
AD_detect_price_anomalies_statistical ==
    /\ pc = "AD.detect_price_anomalies_statistical"
    /\ \E fail \in FaultChoice :
         LET keyerror == ~({"Gamme", "Prix_Actuel_Clean"} \subseteq cols)
         IN  /\ IF fail THEN Raised(pc, "AD.detect_anomalies_isolation_forest")
                ELSE IF keyerror
                     THEN RaisedByCode(pc, "AD.detect_anomalies_isolation_forest")
                ELSE Completed(pc, "AD.detect_anomalies_isolation_forest")
             /\ df' = [i \in 1..Len(df) |->
                         WithPriceAnomaly(df[i],
                             IF fail \/ keyerror THEN <<FALSE, FALSE, <<"Normal">> >>
                             ELSE price_anomaly_row(df, df[i], env.scipy))]
    /\ cols' = cols \cup PriceAnomalyCols
    /\ UNCHANGED <<cleaned_csv, enriched_csv, advanced_csv, env, results, survivors, stats, lib, twice>>


\* detect_anomalies_isolation_forest.features
features ==
    {"Prix_Actuel_Clean", "Rating_Clean", "RAM_GB", "Stockage_GB", "Generation_CPU",
     "Reduction_Reelle", "Performance_Index", "Score_Qualite"}

\* The feature columns that can hold NaN.
NullableFeatures ==
    {"Prix_Actuel_Clean", "Rating_Clean", "RAM_GB", "Stockage_GB", "Generation_CPU"}

\* Some available feature holds a NaN.  The median fill works through
\* df_for_ml[col].fillna(..., inplace=True): it leaves the NaN in place when the
\* column selection is a copy or when the whole column is NaN (NaN median), and
\* fit_transform / fit_predict then accept or reject the NaN depending on the
\* installed pandas and scikit-learn.
HasNaNFeature(rows, has) ==
    \E c \in NullableFeatures \cap has : \E i \in 1..Len(rows) : isna(rows[i][c])

\* score_samples: the forest is not computed; the scores (tenths, negative) are
\* all equal or one record scores lower than the others.
ScoreProfiles(n) == { [i \in 1..n |-> IF i = k THEN -7 ELSE -4] : k \in 0..n }

\* fit_predict with contamination=0.1: -1 for the scores under the 10th percentile.
predictions(scores, i) == scores[i] * 10 < QuantileTimes(scores, 1, 10)

\* (anomaly_scores - min_score) / (max_score - min_score) in thousandths, or 0.5.
score_normalized(scores, i) ==
    IF MaxOf(scores) > MinOf(scores)
    THEN ((scores[i] - MinOf(scores)) * 1000) \div (MaxOf(scores) - MinOf(scores))
    ELSE 500

MLCols == {"Anomalie_ML", "Anomalie_Score_ML", "Anomalie_Score_Normalized"}

WithML(row, flag, raw, norm) ==
    [row EXCEPT !.Anomalie_ML = flag, !.Anomalie_Score_ML = raw,
                !.Anomalie_Score_Normalized = norm]

\* MLDefaults with the normalized score at 0 instead of the midpoint.
MLDefaults_zero(rows) == [i \in 1..Len(rows) |-> WithML(rows[i], FALSE, 0, 0)]

MLDefaults(rows) == [i \in 1..Len(rows) |-> WithML(rows[i], FALSE, 0, 500)]

\* What the forest did on this collection: it raised, or it gave these scores.
ForestRaised == [raises |-> TRUE, scores |-> <<>>]
ForestFitted(scores) == [raises |-> FALSE, scores |-> scores]

\* ForestScores of a forest built without random_state: every fit draws anew.
ForestScores_unseeded(n) == ScoreProfiles(n)

\* IsolationForest(contamination=0.1, random_state=42, n_estimators=100): with
\* the seed fixed the fit is a function of the data, and on a collection it
\* has scored before the forest gives the same scores.
ForestScores(n) ==
    IF isna(lib.forest) THEN ScoreProfiles(n)
    ELSE IF Val(lib.forest).raises THEN {}
    ELSE {Val(lib.forest).scores}

\* execute_full_pipeline, second try block, with detect_anomalies_isolation_forest.
\* The handler of this block only logs.
AD_detect_anomalies_isolation_forest ==
    /\ pc = "AD.detect_anomalies_isolation_forest"
    /\ \/ \* scikit-learn absent, or none of the features is a column
          /\ ~env.sklearn \/ features \cap cols = {}
          /\ \E fail \in FaultChoice :
               IF fail
               THEN /\ Raised(pc, "AD.detect_spec_price_inconsistencies")
                    /\ UNCHANGED <<df, cols>>
               ELSE /\ Completed(pc, "AD.detect_spec_price_inconsistencies")
                    /\ df' = MLDefaults(df)
                    /\ cols' = cols \cup MLCols
          /\ UNCHANGED lib
       \/ \* the forest is fitted
          /\ env.sklearn /\ features \cap cols /= {}
          /\ \E scores \in ForestScores(Len(df)) :
               /\ Completed(pc, "AD.detect_spec_price_inconsistencies")
               /\ df' = [i \in 1..Len(df) |->
                           WithML(df[i], predictions(scores, i), scores[i],
                                  score_normalized(scores, i))]
               /\ cols' = cols \cup MLCols
               /\ lib' = [lib EXCEPT !.forest = Some(ForestFitted(scores))]
       \/ \* the fit raises
          /\ env.sklearn /\ features \cap cols /= {}
          /\ IF HasNaNFeature(df, cols)
             THEN /\ IF isna(lib.forest) THEN TRUE ELSE Val(lib.forest).raises
                  /\ RaisedByCode(pc, "AD.detect_spec_price_inconsistencies")
                  /\ lib' = [lib EXCEPT !.forest = Some(ForestRaised)]
             ELSE /\ faults > 0
                  /\ Raised(pc, "AD.detect_spec_price_inconsistencies")
                  /\ UNCHANGED lib
          /\ UNCHANGED <<df, cols>>
    /\ UNCHANGED <<cleaned_csv, enriched_csv, advanced_csv, env, results, survivors, stats, twice>>


\* spec_price_inconsistencies without the test for a missing price: every
\* comparison with NaN is false and no rule fires.
spec_price_inconsistencies_unguarded(row, has) ==
    LET prix == IF "Prix_Actuel_Clean" \in has THEN row.Prix_Actuel_Clean ELSE None
        perf == IF "Performance_Index" \in has THEN Some(row.Performance_Index) ELSE None
        cpu == IF "CPU" \in has THEN row.CPU ELSE NaN
        ram == IF "RAM_GB" \in has THEN row.RAM_GB ELSE None
        ancien_prix == IF "Ancien_Prix_Clean" \in has THEN row.Ancien_Prix_Clean ELSE None
        p == Val(prix)
        rules ==
            << [fires |-> notna(perf) /\ Val(perf) >= 800 /\ p < 3000,
                issue |-> "Haute perf mais prix bas", severity |-> 3],
               [fires |-> cpu \in {"i7", "i9", "Ryzen 7", "Ryzen 9"} /\ p < 2500,
                issue |-> "CPU premium sous-evalue", severity |-> 3],
               [fires |-> notna(ram) /\ Val(ram) >= 32 /\ p < 4000,
                issue |-> "32GB RAM sous-evalue", severity |-> 2],
               [fires |-> notna(perf) /\ Val(perf) <= 400 /\ p > 4000,
                issue |-> "Perf faible mais prix eleve", severity |-> 2],
               [fires |-> cpu \in {"Celeron", "Pentium"} /\ p > 3000,
                issue |-> "CPU entree surevalue", severity |-> 2],
               [fires |-> notna(ancien_prix) /\ Val(ancien_prix) > 0
                          /\ 10 * p < 3 * Val(ancien_prix),
                issue |-> "Reduction suspecte (>70%)", severity |-> 1] >>
        fired == SelectSeq(rules, LAMBDA r : r.fires)
        issues == [j \in 1..Len(fired) |-> fired[j].issue]
    IN  IF isna(prix) THEN << <<"Coherent">>, 0 >>
        ELSE << IF issues = <<>> THEN <<"Coherent">> ELSE issues,
                SumSeq([j \in 1..Len(fired) |-> fired[j].severity]) >>

\* spec_price_inconsistencies with rule 1 off by one (perf > 80 for >= 80).
spec_price_inconsistencies_above80(row, has) ==
    LET prix == IF "Prix_Actuel_Clean" \in has THEN row.Prix_Actuel_Clean ELSE None
        perf == IF "Performance_Index" \in has THEN Some(row.Performance_Index) ELSE None
        cpu == IF "CPU" \in has THEN row.CPU ELSE NaN
        ram == IF "RAM_GB" \in has THEN row.RAM_GB ELSE None
        ancien_prix == IF "Ancien_Prix_Clean" \in has THEN row.Ancien_Prix_Clean ELSE None
        p == Val(prix)
        rules ==
            << [fires |-> notna(perf) /\ Val(perf) > 800 /\ p < 3000,
                issue |-> "Haute perf mais prix bas", severity |-> 3],
               [fires |-> cpu \in {"i7", "i9", "Ryzen 7", "Ryzen 9"} /\ p < 2500,
                issue |-> "CPU premium sous-evalue", severity |-> 3],
               [fires |-> notna(ram) /\ Val(ram) >= 32 /\ p < 4000,
                issue |-> "32GB RAM sous-evalue", severity |-> 2],
               [fires |-> notna(perf) /\ Val(perf) <= 400 /\ p > 4000,
                issue |-> "Perf faible mais prix eleve", severity |-> 2],
               [fires |-> cpu \in {"Celeron", "Pentium"} /\ p > 3000,
                issue |-> "CPU entree surevalue", severity |-> 2],
               [fires |-> notna(ancien_prix) /\ Val(ancien_prix) > 0
                          /\ 10 * p < 3 * Val(ancien_prix),
                issue |-> "Reduction suspecte (>70%)", severity |-> 1] >>
        fired == SelectSeq(rules, LAMBDA r : r.fires)
        issues == [j \in 1..Len(fired) |-> fired[j].issue]
    IN  IF isna(prix) THEN << <<"Prix manquant">>, 0 >>
        ELSE << IF issues = <<>> THEN <<"Coherent">> ELSE issues,
                SumSeq([j \in 1..Len(fired) |-> fired[j].severity]) >>

\* detect_spec_price_inconsistencies, body of the loop: <<issues, severity>>.
\* row.get gives None for a column the collection lacks (has: the columns).
\* The joined text " | ".join(issues) is kept as the sequence of its parts.
spec_price_inconsistencies(row, has) ==
    LET prix == IF "Prix_Actuel_Clean" \in has THEN row.Prix_Actuel_Clean ELSE None
        perf == IF "Performance_Index" \in has THEN Some(row.Performance_Index) ELSE None
        cpu == IF "CPU" \in has THEN row.CPU ELSE NaN
        ram == IF "RAM_GB" \in has THEN row.RAM_GB ELSE None
        ancien_prix == IF "Ancien_Prix_Clean" \in has THEN row.Ancien_Prix_Clean ELSE None
        p == Val(prix)
        rules ==
            << [fires |-> notna(perf) /\ Val(perf) >= 800 /\ p < 3000,
                issue |-> "Haute perf mais prix bas", severity |-> 3],
               [fires |-> cpu \in {"i7", "i9", "Ryzen 7", "Ryzen 9"} /\ p < 2500,
                issue |-> "CPU premium sous-evalue", severity |-> 3],
               [fires |-> notna(ram) /\ Val(ram) >= 32 /\ p < 4000,
                issue |-> "32GB RAM sous-evalue", severity |-> 2],
               [fires |-> notna(perf) /\ Val(perf) <= 400 /\ p > 4000,
                issue |-> "Perf faible mais prix eleve", severity |-> 2],
               [fires |-> cpu \in {"Celeron", "Pentium"} /\ p > 3000,
                issue |-> "CPU entree surevalue", severity |-> 2],
               [fires |-> notna(ancien_prix) /\ Val(ancien_prix) > 0
                          /\ 10 * p < 3 * Val(ancien_prix),
                issue |-> "Reduction suspecte (>70%)", severity |-> 1] >>
        fired == SelectSeq(rules, LAMBDA r : r.fires)
        issues == [j \in 1..Len(fired) |-> fired[j].issue]
    IN  IF isna(prix) THEN << <<"Prix manquant">>, 0 >>
        ELSE << IF issues = <<>> THEN <<"Coherent">> ELSE issues,
                SumSeq([j \in 1..Len(fired) |-> fired[j].severity]) >>

InconsistencyCols == {"Incoherence_Spec_Prix", "Severite_Incoherence"}

\* execute_full_pipeline, third try block.  The two columns are assigned after
\* the loop; the handler only logs.
AD_detect_spec_price_inconsistencies ==
    /\ pc = "AD.detect_spec_price_inconsistencies"
    /\ \E fail \in FaultChoice :
         IF fail
         THEN /\ Raised(pc, "AD.flag_suspicious_products")
              /\ UNCHANGED <<df, cols>>
         ELSE /\ Completed(pc, "AD.flag_suspicious_products")
              /\ df' = [i \in 1..Len(df) |->
                          LET r == spec_price_inconsistencies(df[i], cols)
                          IN  [df[i] EXCEPT !.Incoherence_Spec_Prix = r[1],
                                            !.Severite_Incoherence = r[2]]]
              /\ cols' = cols \cup InconsistencyCols
    /\ UNCHANGED <<cleaned_csv, enriched_csv, advanced_csv, env, results, survivors, stats, lib, twice>>

\* suspicion with the severity criterion off by one (> 3 for >= 3).
suspicion_severity_above(row, has) ==
    LET prix == IF "Prix_Actuel_Clean" \in has THEN row.Prix_Actuel_Clean ELSE None
        criteres ==
            << [fires |-> "Anomalie_ML" \in has /\ row.Anomalie_ML,
                reason |-> "Anomalie ML"],
               [fires |-> \/ "Anomalie_Prix_ZScore" \in has /\ row.Anomalie_Prix_ZScore
                          \/ "Anomalie_Prix_IQR" \in has /\ row.Anomalie_Prix_IQR,
                reason |-> "Anomalie prix"],
               [fires |-> (IF "Severite_Incoherence" \in has
                           THEN row.Severite_Incoherence ELSE 0) > 3,
                reason |-> "Incoherence majeure"],
               [fires |-> (IF "Taux_Completude" \in has
                           THEN row.Taux_Completude ELSE 1000) < 400,
                reason |-> "Donnees incompletes"],
               [fires |-> notna(prix) /\ (Val(prix) < 500 \/ Val(prix) > 20000),
                reason |-> "Prix extreme"] >>
        fired == SelectSeq(criteres, LAMBDA c : c.fires)
        reasons == [j \in 1..Len(fired) |-> fired[j].reason]
    IN  << reasons /= <<>>, IF reasons = <<>> THEN <<"OK">> ELSE reasons >>

\* flag_suspicious_products, body of the loop: <<is_suspicious, reasons>>.
\* " + ".join(reasons) is kept as the sequence of its parts, "OK" as <<"OK">>.
suspicion(row, has) ==
    LET prix == IF "Prix_Actuel_Clean" \in has THEN row.Prix_Actuel_Clean ELSE None
        criteres ==
            << [fires |-> "Anomalie_ML" \in has /\ row.Anomalie_ML,
                reason |-> "Anomalie ML"],
               [fires |-> \/ "Anomalie_Prix_ZScore" \in has /\ row.Anomalie_Prix_ZScore
                          \/ "Anomalie_Prix_IQR" \in has /\ row.Anomalie_Prix_IQR,
                reason |-> "Anomalie prix"],
               [fires |-> (IF "Severite_Incoherence" \in has
                           THEN row.Severite_Incoherence ELSE 0) >= 3,
                reason |-> "Incoherence majeure"],
               [fires |-> (IF "Taux_Completude" \in has
                           THEN row.Taux_Completude ELSE 1000) < 400,
                reason |-> "Donnees incompletes"],
               [fires |-> notna(prix) /\ (Val(prix) < 500 \/ Val(prix) > 20000),
                reason |-> "Prix extreme"] >>
        fired == SelectSeq(criteres, LAMBDA c : c.fires)
        reasons == [j \in 1..Len(fired) |-> fired[j].reason]
    IN  << reasons /= <<>>, IF reasons = <<>> THEN <<"OK">> ELSE reasons >>

SuspectCols == {"Produit_Suspect", "Raisons_Suspicion"}

\* execute_full_pipeline, fourth try block; the handler only logs.
AD_flag_suspicious_products ==
    /\ pc = "AD.flag_suspicious_products"
    /\ \E fail \in FaultChoice :
         IF fail
         THEN /\ Raised(pc, "AD.generate_anomaly_report")
              /\ UNCHANGED <<df, cols>>
         ELSE /\ Completed(pc, "AD.generate_anomaly_report")
              /\ df' = [i \in 1..Len(df) |->
                          LET r == suspicion(df[i], cols)
                          IN  [df[i] EXCEPT !.Produit_Suspect = r[1],
                                            !.Raisons_Suspicion = r[2]]]
              /\ cols' = cols \cup SuspectCols
    /\ UNCHANGED <<cleaned_csv, enriched_csv, advanced_csv, env, results, survivors, stats, lib, twice>>

\* execute_full_pipeline, fifth try block: the report goes to data/reports.
\* The detector returns its collection and run_anomaly_detection returns True.
AD_generate_anomaly_report ==
    /\ pc = "AD.generate_anomaly_report"
    /\ \E fail \in FaultChoice :
         IF fail THEN Raised(pc, "AP.calculate_business_metrics")
         ELSE Completed(pc, "AP.calculate_business_metrics")
    /\ UNCHANGED <<df, cols, cleaned_csv, enriched_csv, advanced_csv, env, results, survivors, stats, lib, twice>>

-----------------------------------------------------------------------------
(* AdvancedAIPipeline *)

\* load_data reads enriched_data.csv; when it fails execute_full_pipeline
\* returns False at once.
AP_load_data ==
    /\ pc = "AP.load_data"
    /\ \E fail \in FaultChoice :
         IF fail \/ enriched_csv = NoFile
         THEN /\ IF fail THEN Raised(pc, "done") ELSE RaisedByCode(pc, "done")
              /\ results' = [results EXCEPT !.ia_avancee = "False"]
              /\ UNCHANGED <<df, cols>>
         ELSE /\ Completed(pc, "NLP.extract_advanced_features")
              /\ df' = enriched_csv.rows
              /\ cols' = enriched_csv.cols
              /\ UNCHANGED results
    /\ UNCHANGED <<cleaned_csv, enriched_csv, advanced_csv, env, survivors, stats, lib, twice>>

\* calculate_confidence_index without the clamp to [0, 100].
calculate_confidence_index_unclamped(row, has) ==
    LET suspect == "Produit_Suspect" \in has /\ row.Produit_Suspect
        completude == IF "Taux_Completude" \in has THEN row.Taux_Completude ELSE 1000
        score == 10000
                 - (IF suspect THEN 3000 ELSE 0)
                 - (IF "Anomalie_ML" \in has /\ row.Anomalie_ML THEN 2000 ELSE 0)
                 - (1000 - completude) * 3
                 + (IF "Est_Bonne_Affaire" \in has /\ row.Est_Bonne_Affaire /\ ~suspect
                    THEN 1000 ELSE 0)
    IN  RoundHalfEven(score, 10)

\* calculate_confidence_index with the penalty of the missing fields at 3
\* points, not 0.3, for each percent of completeness that lacks.
calculate_confidence_index_unscaled(row, has) ==
    LET suspect == "Produit_Suspect" \in has /\ row.Produit_Suspect
        completude == IF "Taux_Completude" \in has THEN row.Taux_Completude ELSE 1000
        score == 10000
                 - (IF suspect THEN 3000 ELSE 0)
                 - (IF "Anomalie_ML" \in has /\ row.Anomalie_ML THEN 2000 ELSE 0)
                 - (1000 - completude) * 30
                 + (IF "Est_Bonne_Affaire" \in has /\ row.Est_Bonne_Affaire /\ ~suspect
                    THEN 1000 ELSE 0)
    IN  Max(0, Min(1000, RoundHalfEven(score, 10)))

\* calculate_business_metrics.calculate_confidence_index: Indice_Confiance in
\* tenths; the score is summed in hundredths.
calculate_confidence_index(row, has) ==
    LET suspect == "Produit_Suspect" \in has /\ row.Produit_Suspect
        completude == IF "Taux_Completude" \in has THEN row.Taux_Completude ELSE 1000
        score == 10000
                 - (IF suspect THEN 3000 ELSE 0)
                 - (IF "Anomalie_ML" \in has /\ row.Anomalie_ML THEN 2000 ELSE 0)
                 - (1000 - completude) * 3
                 + (IF "Est_Bonne_Affaire" \in has /\ row.Est_Bonne_Affaire /\ ~suspect
                    THEN 1000 ELSE 0)
    IN  Max(0, Min(1000, RoundHalfEven(score, 10)))

\* recommend_purchase with the test of the suspect flag moved to the end of
\* the cascade.
recommend_purchase_suspect_last(row, has) ==
    LET confiance == row.Indice_Confiance
        rqp == IF "RQP_Score" \in has THEN row.RQP_Score ELSE 0
        suspect == "Produit_Suspect" \in has /\ row.Produit_Suspect
    IN  IF confiance >= 800 /\ rqp > 1500 THEN "Tres recommande"
        ELSE IF confiance >= 600 /\ rqp > 1000 THEN "Recommande"
        ELSE IF confiance >= 400 THEN "A considerer"
        ELSE IF suspect THEN "Non recommande - Verifier"
        ELSE "Non recommande"

\* calculate_business_metrics.recommend_purchase, on the row that already
\* holds Indice_Confiance.
recommend_purchase(row, has) ==
    LET confiance == row.Indice_Confiance
        rqp == IF "RQP_Score" \in has THEN row.RQP_Score ELSE 0
        suspect == "Produit_Suspect" \in has /\ row.Produit_Suspect
    IN  IF suspect THEN "Non recommande - Verifier"
        ELSE IF confiance >= 800 /\ rqp > 1500 THEN "Tres recommande"
        ELSE IF confiance >= 600 /\ rqp > 1000 THEN "Recommande"
        ELSE IF confiance >= 400 THEN "A considerer"
        ELSE "Non recommande"

\* calculate_business_metrics.vendor_reliability_score, in tenths.
vendor_reliability_score(row, has) ==
    LET score == 50
                 - (IF "Produit_Suspect" \in has /\ row.Produit_Suspect THEN 20 ELSE 0)
                 - (IF "Severite_Incoherence" \in has /\ row.Severite_Incoherence >= 2
                    THEN 10 ELSE 0)
                 - (IF "Taux_Completude" \in has /\ row.Taux_Completude < 500
                    THEN 10 ELSE 0)
    IN  Max(10, Min(50, score))

BusinessCols == {"Indice_Confiance", "Recommandation_Achat", "Score_Fiabilite_Vendeur"}

\* Step 4 of execute_full_pipeline.  The three columns are assigned one after
\* the other; the handler only logs.
AP_calculate_business_metrics ==
    /\ pc = "AP.calculate_business_metrics"
    /\ \E fail \in FaultChoice :
         IF fail
         THEN /\ Raised(pc, "AP.save_results")
              /\ UNCHANGED <<df, cols>>
         ELSE /\ Completed(pc, "AP.save_results")
              /\ df' = [i \in 1..Len(df) |->
                          LET c == [df[i] EXCEPT !.Indice_Confiance =
                                        calculate_confidence_index(df[i], cols)]
                          IN  [c EXCEPT !.Recommandation_Achat = recommend_purchase(c, cols),
                                        !.Score_Fiabilite_Vendeur =
                                            vendor_reliability_score(c, cols)]]
              /\ cols' = cols \cup BusinessCols
    /\ UNCHANGED <<cleaned_csv, enriched_csv, advanced_csv, env, results, survivors, stats, lib, twice>>

\* Step 5: ai_advanced_complete.csv; the handler only logs.
AP_save_results ==
    /\ pc = "AP.save_results"
    /\ \E fail \in FaultChoice :
         IF fail
         THEN /\ Raised(pc, "AP.generate_master_report")
              /\ UNCHANGED advanced_csv
         ELSE /\ Completed(pc, "AP.generate_master_report")
              /\ advanced_csv' = File(df, cols)
    /\ UNCHANGED <<df, cols, cleaned_csv, enriched_csv, env, results, survivors, stats, lib, twice>>

\* Step 6: the report; execute_full_pipeline then returns True.
AP_generate_master_report ==
    /\ pc = "AP.generate_master_report"
    /\ \E fail \in FaultChoice :
         IF fail THEN Raised(pc, "done") ELSE Completed(pc, "done")
    /\ results' = [results EXCEPT !.ia_avancee = "True"]
    /\ UNCHANGED <<df, cols, cleaned_csv, enriched_csv, advanced_csv, env, survivors, stats, lib, twice>>

-----------------------------------------------------------------------------
(* Initial states and the next-state relation *)

\* DataCleaner.stats as __init__ sets it, and at the end of supprimer_doublons
\* of a run in which neither filter dropped a record.
NoStats ==
    [produits_initiaux |-> 0, doublons_supprimes |-> 0, accessoires_filtres |-> 0,
     produits_finaux |-> 0]
StatsAfterGate(n) == [NoStats EXCEPT !.produits_initiaux = n]

\* No library has been called yet.
NoAnswers == [blob |-> None, stars |-> None, forest |-> None]

\* The pending results of a run, and the files and results of no run.
Pending == [nettoyage |-> "pending", enrichissement |-> "pending", ia_avancee |-> "pending"]
NoRun == [cleaned |-> NoFile, enriched |-> NoFile, advanced |-> NoFile, results |-> Pending]

Env(sklearn, scipy, textblob, bert, spacy) ==
    [sklearn |-> sklearn, scipy |-> scipy, textblob |-> textblob, bert |-> bert,
     spacy |-> spacy]

\* A file of another origin handed to AdvancedAIPipeline(input_file=...): it
\* holds titles only.
ForeignFiles ==
    { File(<<NormalizedRow(1, [pos |-> p, neg |-> 0], None, None, None, NaN,
                           None, None, NoStorage, NaN)>>, {"Titre"}) : p \in 0..1 }

\* main.executer_pipeline_complet after the scraping, at the point where
\* DataCleaner has removed the duplicates.
InitMain(rows, e, budget) ==
    /\ pc = "DC.calculer_completude"
    /\ df = rows
    /\ cols = NormalizedCols
    /\ cleaned_csv = NoFile
    /\ enriched_csv = NoFile
    /\ advanced_csv = NoFile
    /\ results = Pending
    /\ env = e
    /\ faults = budget
    /\ raised = {}
    /\ ran = {}
    /\ survivors = Keys(rows)
    /\ stats = StatsAfterGate(Len(rows))
    /\ lib = NoAnswers
    /\ run = 1
    /\ input = [pc |-> "DC.calculer_completude", df |-> rows, cols |-> NormalizedCols]
    /\ first_run = NoRun
    /\ Idle

\* pipeline_master run on its own on a given input file.
InitAdvanced(file, e) ==
    /\ pc = "AP.load_data"
    /\ df = <<>>
    /\ cols = {}
    /\ cleaned_csv = NoFile
    /\ enriched_csv = file
    /\ advanced_csv = NoFile
    /\ results = Pending
    /\ env = e
    /\ faults = 0
    /\ raised = {}
    /\ ran = {}
    /\ survivors = Keys(file.rows)
    /\ stats = NoStats
    /\ lib = NoAnswers
    /\ run = 1
    /\ input = [pc |-> "AP.load_data", df |-> <<>>, cols |-> {}]
    /\ first_run = NoRun
    /\ Idle

Init ==
    \/ \E row \in ScoringRows :
         InitMain(<<row>>, Env(TRUE, TRUE, FALSE, FALSE, FALSE), 0)
    \/ \E rows \in Batches(2, MaxRecords), sk \in BOOLEAN :
         InitMain(rows, Env(sk, TRUE, FALSE, FALSE, FALSE), 0)
    \/ \E rows \in LongBatches, sp \in BOOLEAN :
         InitMain(rows, Env(TRUE, sp, FALSE, FALSE, FALSE), 0)
    \/ \E rows \in GradedBatches, sk \in BOOLEAN :
         InitMain(rows, Env(sk, TRUE, FALSE, FALSE, FALSE), 0)
    \/ \E row \in SentimentRows, tb \in BOOLEAN, bert \in BOOLEAN, spacy \in BOOLEAN :
         InitMain(<<row>>, Env(TRUE, TRUE, tb, bert, spacy), 0)
    \/ \E file \in ForeignFiles, sk \in BOOLEAN :
         InitAdvanced(file, Env(sk, TRUE, FALSE, FALSE, FALSE))

\* The same pipeline with unexpected exceptions in its steps.
InitFault ==
    \E rows \in Batches(1, MaxFaultRecords), sk \in BOOLEAN :
        InitMain(rows, Env(sk, TRUE, FALSE, FALSE, FALSE), MaxFaults)

Next ==
    \/ DC_calculer_completude
    \/ DC_classifier_par_gamme
    \/ DC_sauvegarder_donnees_nettoyees
    \/ DC_generer_rapport_qualite
    \/ FE_charger_donnees
    \/ FE_calculer_score_performance
    \/ FE_calculer_score_qualite
    \/ FE_calculer_rapport_qualite_prix
    \/ FE_detecter_bonnes_affaires
    \/ FE_detecter_anomalies_prix
    \/ FE_analyser_sentiment_description
    \/ FE_creer_tags_produit
    \/ FE_sauvegarder_donnees_enrichies
    \/ AP_load_data
    \/ NLP_extract_advanced_features
    \/ NLP_analyze_sentiment_advanced
    \/ NLP_extract_keywords_tfidf
    \/ NLP_generate_product_summary
    \/ AD_detect_price_anomalies_statistical
    \/ AD_detect_anomalies_isolation_forest
    \/ AD_detect_spec_price_inconsistencies
    \/ AD_flag_suspicious_products
    \/ AD_generate_anomaly_report
    \/ AP_calculate_business_metrics
    \/ AP_save_results
    \/ AP_generate_master_report

Spec == Init /\ [][Next]_vars

SpecFault == InitFault /\ [][Next]_vars

\* The pipeline is started again on the input of the run that has ended: the
\* components are built anew and read the same collection; the files of the
\* first run are on the disk and the libraries are the same.
Rerun ==
    /\ pc = "done"
    /\ run = 1
    /\ run' = 2
    /\ first_run' = [cleaned |-> cleaned_csv, enriched |-> enriched_csv,
                     advanced |-> advanced_csv, results |-> results]
    /\ pc' = input.pc
    /\ df' = input.df
    /\ cols' = input.cols
    /\ results' = Pending
    /\ stats' = IF input.pc = "AP.load_data" THEN NoStats
                ELSE StatsAfterGate(Len(input.df))
    /\ raised' = {}
    /\ ran' = {}
    /\ UNCHANGED <<cleaned_csv, enriched_csv, advanced_csv, env, faults, survivors,
                   lib, input, outer>>

NextTwice == Next \/ Rerun

\* The inputs of the runs that are repeated: batches, titles with sentiment
\* keywords under each sentiment library, and a file of another origin.
InitTwice ==
    \/ \E rows \in Batches(1, MaxTwice), sk \in BOOLEAN :
         InitMain(rows, Env(sk, TRUE, FALSE, FALSE, FALSE), 0)
    \/ \E row \in SentimentRows, tb \in BOOLEAN, bert \in BOOLEAN :
         InitMain(<<row>>, Env(TRUE, TRUE, tb, bert, FALSE), 0)
    \/ \E file \in ForeignFiles, sk \in BOOLEAN :
         InitAdvanced(file, Env(sk, TRUE, FALSE, FALSE, FALSE))

\* Two runs of the pipeline, one after the other, on one input.
SpecTwice == InitTwice /\ [][NextTwice]_vars

-----------------------------------------------------------------------------
(* Texts of the raw file *)

\* A text is the sequence of its characters; a cell without text is None and
\* a cell with text t is Some(t).
Digits == <<"0", "1", "2", "3", "4", "5", "6", "7", "8", "9">>
IsDigit(c) == \E d \in 1..10 : Digits[d] = c
DigitVal(c) == (CHOOSE d \in 1..10 : Digits[d] = c) - 1
IsSpace(c) == c = " "

\* The number a sequence of digits writes (0 for no digit).
RECURSIVE NumOf(_)
NumOf(ds) ==
    IF ds = <<>> THEN 0
    ELSE 10 * NumOf(SubSeq(ds, 1, Len(ds) - 1)) + DigitVal(ds[Len(ds)])

RECURSIVE Pow10(_)
Pow10(k) == IF k = 0 THEN 1 ELSE 10 * Pow10(k - 1)

\* A decimal number num / den, den a power of ten, in lowest such terms.
RECURSIVE Decimal(_, _)
Decimal(num, den) ==
    IF den > 1 /\ num % 10 = 0 THEN Decimal(num \div 10, den \div 10)
    ELSE [num |-> num, den |-> den]

\* float(t) for a text of digits and dots: the number, or None where float
\* raises ValueError (no digit, or more than one dot).
float(t) ==
    LET dots == SelectSeq(t, LAMBDA c : c = ".")
        digits == SelectSeq(t, LAMBDA c : IsDigit(c))
        dot == CHOOSE i \in 1..Len(t) : t[i] = "."
        decimals == IF dots = <<>> THEN 0 ELSE Len(t) - dot
    IN  IF digits = <<>> \/ Len(dots) > 1 \/ Len(digits) + Len(dots) /= Len(t) THEN None
        ELSE Some(Decimal(NumOf(digits), Pow10(decimals)))

\* text[i..] starts with pat.
StartsAt(text, i, pat) ==
    /\ i + Len(pat) - 1 <= Len(text)
    /\ \A j \in 1..Len(pat) : text[i + j - 1] = pat[j]

\* pat in text
Contains(text, pat) == \E i \in 1..(Len(text) + 1) : StartsAt(text, i, pat)

\* The first position from i on that holds no character of the class (the
\* end of a greedy run of the class).
RunEnd(text, i, InClass(_)) ==
    CHOOSE j \in i..(Len(text) + 1) :
        /\ \A k \in i..(j - 1) : InClass(text[k])
        /\ IF j = Len(text) + 1 THEN TRUE ELSE ~InClass(text[j])

-----------------------------------------------------------------------------
(* DataCleaner: parsing the raw file *)

\* Accented letters are written as the letter and its accent: "e/" for e
\* acute, "e!" for e grave, "a^" for a circumflex.
LowerLetters ==
    <<"a", "b", "c", "d", "e", "f", "g", "h", "i", "j", "k", "l", "m", "n", "o", "p",
      "q", "r", "s", "t", "u", "v", "w", "x", "y", "z", "e/", "e!", "a^">>
UpperLetters ==
    <<"A", "B", "C", "D", "E", "F", "G", "H", "I", "J", "K", "L", "M", "N", "O", "P",
      "Q", "R", "S", "T", "U", "V", "W", "X", "Y", "Z", "E/", "E!", "A^">>

\* str.upper and str.lower
upper(t) ==
    [i \in 1..Len(t) |->
        IF \E k \in 1..Len(LowerLetters) : LowerLetters[k] = t[i]
        THEN UpperLetters[CHOOSE k \in 1..Len(LowerLetters) : LowerLetters[k] = t[i]]
        ELSE t[i]]
lower(t) ==
    [i \in 1..Len(t) |->
        IF \E k \in 1..Len(UpperLetters) : UpperLetters[k] = t[i]
        THEN LowerLetters[CHOOSE k \in 1..Len(UpperLetters) : UpperLetters[k] = t[i]]
        ELSE t[i]]

\* str(x) of a cell: a cell without text reads "nan".
str(cell) == IF isna(cell) THEN <<"n", "a", "n">> ELSE Val(cell)

\* extraire_prix that answers 0.0 where float raises.
extraire_prix_zero(prix_str) ==
    IF isna(prix_str) \/ Val(prix_str) = <<>> THEN None
    ELSE LET kept == SelectSeq(Val(prix_str), LAMBDA c : IsDigit(c) \/ c \in {",", "."})
             prix_clean == SelectSeq(kept, LAMBDA c : c /= ",")
         IN  IF isna(float(prix_clean)) THEN Some(Decimal(0, 1)) ELSE float(prix_clean)

\* nettoyer_prix.extraire_prix: re.sub keeps the digits, commas and dots, the
\* commas are removed, and the bare except turns the ValueError of float into
\* None.
extraire_prix(prix_str) ==
    IF isna(prix_str) \/ Val(prix_str) = <<>> THEN None
    ELSE LET kept == SelectSeq(Val(prix_str), LAMBDA c : IsDigit(c) \/ c \in {",", "."})
             prix_clean == SelectSeq(kept, LAMBDA c : c /= ",")
         IN  float(prix_clean)

\* nettoyer_prix.calculer_reduction on the parsed prices: the discount in
\* hundredths of a percent.
calculer_reduction_row(row) ==
    LET ancien == row.Ancien_Prix_Clean
        actuel == row.Prix_Actuel_Clean
    IN  IF isna(ancien) \/ isna(actuel) THEN 0
        ELSE IF Val(ancien).num <= 0 THEN 0
        ELSE RoundHalfEven(
                 (Val(ancien).num * Val(actuel).den - Val(actuel).num * Val(ancien).den)
                     * 10000,
                 Val(ancien).num * Val(actuel).den)

\* The positions at which a run of digits starts.
DigitHeads(t) ==
    {i \in 1..Len(t) : IsDigit(t[i]) /\ (IF i = 1 THEN TRUE ELSE ~IsDigit(t[i - 1]))}

\* re.search of a group of digits followed by a pattern that starts with no
\* digit: After(t, j) says that the rest of the pattern matches from position
\* j.  The match is the leftmost one; the group is the whole run of digits.
SearchNumber(t, After(_, _)) ==
    LET heads == {i \in DigitHeads(t) : After(t, RunEnd(t, i, IsDigit))}
        first == CHOOSE i \in heads : \A k \in heads : i <= k
    IN  IF heads = {} THEN None
        ELSE Some(NumOf(SubSeq(t, first, RunEnd(t, first, IsDigit) - 1)))

\* nettoyer_rating.extraire_rating: re.search of digits, an optional dot and
\* further digits (the group), then white space and "out of"; float of the
\* group.
extraire_rating(rating_str) ==
    IF isna(rating_str) \/ Val(rating_str) = <<>> THEN None
    ELSE LET t == Val(rating_str)
             GroupEnd(i) ==
                 LET e1 == RunEnd(t, i, IsDigit)
                 IN  IF e1 <= Len(t) /\ t[e1] = "." /\
                        StartsAt(t, RunEnd(t, RunEnd(t, e1 + 1, IsDigit), IsSpace),
                                 <<"o", "u", "t", " ", "o", "f">>)
                     THEN RunEnd(t, e1 + 1, IsDigit)
                     ELSE e1
             heads == {i \in DigitHeads(t) :
                         StartsAt(t, RunEnd(t, GroupEnd(i), IsSpace), <<"o",
                             "u", "t", " ", "o", "f">>)}
             first == CHOOSE i \in heads : \A k \in heads : i <= k
         IN  IF heads = {} THEN None
             ELSE float(SubSeq(t, first, GroupEnd(first) - 1))

\* extraire_marque.marques_connues, in the order of the list, and .title()
marques_connues ==
    << << <<"H", "P">>, "Hp">>, << <<"D", "E", "L", "L">>, "Dell">>, << <<"L",
        "E", "N", "O", "V", "O">>, "Lenovo">>,
       << <<"A", "S", "U", "S">>, "Asus">>, << <<"A", "C", "E", "R">>, "Acer">>,
           << <<"A", "P", "P", "L", "E">>, "Apple">>,
       << <<"S", "A", "M", "S", "U", "N", "G">>, "Samsung">>, << <<"M", "S",
           "I">>, "Msi">>, << <<"T", "O", "S", "H", "I", "B", "A">>, "Toshiba">>,
       << <<"H", "U", "A", "W", "E", "I">>, "Huawei">>, << <<"X", "I", "A",
           "O", "M", "I">>, "Xiaomi">>,
       << <<"M", "I", "C", "R", "O", "S", "O", "F", "T">>, "Microsoft">>, << <<"L",
           "O", "G", "I", "T", "E", "C", "H">>, "Logitech">> >>

\* The first entry of a list of <<pattern, value>> whose pattern is in the
\* text, or the default.
FirstContained(text, table, default) ==
    LET found == {k \in 1..Len(table) : Contains(text, table[k][1])}
    IN  IF found = {} THEN default
        ELSE table[CHOOSE k \in found : \A j \in found : k <= j][2]

\* extraire_marque.detecter_marque
detecter_marque(titre) == FirstContained(upper(str(titre)), marques_connues, "Autre")

\* extraire_specs_techniques.extraire_cpu: the chain of tests, in its order.
cpu_patterns ==
    << << <<"I", "9">>, "i9">>, << <<"I", "7">>, "i7">>, << <<"I", "5">>, "i5">>,
        << <<"I", "3">>, "i3">>,
       << <<"R", "Y", "Z", "E", "N", " ", "9">>, "Ryzen 9">>, << <<"R", "Y",
           "Z", "E", "N", " ", "7">>, "Ryzen 7">>,
       << <<"R", "Y", "Z", "E", "N", " ", "5">>, "Ryzen 5">>, << <<"R", "Y",
           "Z", "E", "N", " ", "3">>, "Ryzen 3">>,
       << <<"C", "E", "L", "E", "R", "O", "N">>, "Celeron">>, << <<"P", "E",
           "N", "T", "I", "U", "M">>, "Pentium">> >>

extraire_cpu(titre) == FirstContained(upper(str(titre)), cpu_patterns, "Autre")

\* One optional character of a set: the positions after it.
AfterOptional(t, js, set) ==
    js \cup {j + 1 : j \in {k \in js : k <= Len(t) /\ t[k] \in set}}

\* extraire_specs_techniques.extraire_generation: digits, then an optional e
\* (with or without grave accent), an optional m, an optional e, white space
\* and G or g, on the title as written.
extraire_generation(titre) ==
    LET After(t, j) ==
            \E c \in AfterOptional(t, AfterOptional(t, AfterOptional(t, {j},
                         {"e!", "e", "E!", "E"}), {"m", "M"}), {"e", "E"}) :
                LET d == RunEnd(t, c, IsSpace)
                IN  d <= Len(t) /\ t[d] \in {"G", "g"}
    IN  SearchNumber(str(titre), After)

\* White space, G, an optional B and white space, as the patterns below have
\* it after the digits, under re.IGNORECASE (t is the title in upper case):
\* the positions after it.
AfterGiga(t, j) ==
    LET d == RunEnd(t, j, IsSpace)
    IN  IF d <= Len(t) /\ t[d] = "G"
        THEN {RunEnd(t, x, IsSpace) : x \in AfterOptional(t, {d + 1}, {"B"})}
        ELSE {}

\* extraire_specs_techniques.extraire_ram: digits, G with an optional B, then
\* RAM or DDR.
extraire_ram(titre) ==
    LET After(t, j) ==
            \E y \in AfterGiga(t, j) : StartsAt(t, y, <<"R", "A", "M">>) \/ StartsAt(t,
                y, <<"D", "D", "R">>)
    IN  SearchNumber(upper(str(titre)), After)

\* extraire_specs_techniques.extraire_stockage: <<capacity, type>>
extraire_stockage(titre) ==
    LET U == upper(str(titre))
        AfterSsd(t, j) == \E y \in AfterGiga(t, j) : StartsAt(t, y, <<"S", "S", "D">>)
        AfterHdd(t, j) ==
            \E y \in AfterGiga(t, j) : StartsAt(t, y, <<"H", "D", "D">>) \/ StartsAt(t,
                y, <<"G", "O">>)
        AfterUnit(t, j) ==
            LET d == RunEnd(t, j, IsSpace)
            IN  \E unit \in {<<"G", "B">>, <<"G", "O">>, <<"T", "B">>, <<"T",
                "O">>} : StartsAt(t, d, unit)
        ssd_match == SearchNumber(U, AfterSsd)
        hdd_match == SearchNumber(U, AfterHdd)
        storage_match == SearchNumber(U, AfterUnit)
    IN  IF notna(ssd_match) THEN <<ssd_match, "SSD">>
        ELSE IF notna(hdd_match) THEN <<hdd_match, "HDD">>
        ELSE IF notna(storage_match)
             THEN IF Contains(U, <<"T", "B">>) \/ Contains(U, <<"T", "O">>)
                  THEN <<Some(Val(storage_match) * 1024), "Inconnu">>
                  ELSE <<storage_match, "Inconnu">>
        ELSE <<None, NaN>>

\* detecter_etat_produit.classifier_etat
etat_patterns ==
    << << <<"r", "e", "m", "i", "s">>, "Remis a neuf">>, << <<"r", "e", "c",
        "o", "n", "d", "i", "t", "i", "o", "n", "n">>, "Remis a neuf">>,
       << <<"r", "e", "f", "u", "r", "b", "i", "s", "h", "e", "d">>, "Remis a neuf">>,
           << <<"o", "c", "c", "a", "s", "i", "o", "n">>, "Occasion">>,
       << <<"u", "s", "e", "d">>, "Occasion">>, << <<"n", "e", "u", "f">>, "Neuf">>,
           << <<"n", "e", "w">>, "Neuf">> >>

classifier_etat(titre) == FirstContained(lower(str(titre)), etat_patterns, "Non specifie")

\* filtrer_accessoires.mots_cles_accessoires
mots_cles_accessoires ==
    {<<"s", "o", "u", "r", "i", "s">>, <<"c", "l", "a", "v", "i", "e", "r">>,
        <<"s", "a", "c">>, <<"s", "a", "c", "o", "c", "h", "e">>, <<"c", "a",
        "r", "t", "a", "b", "l", "e">>, <<"s", "u", "p", "p", "o", "r", "t">>,
     <<"t", "a", "p", "i", "s">>, <<"c", "h", "a", "r", "g", "e", "u", "r">>,
         <<"c", "a^", "b", "l", "e">>, <<"a", "d", "a", "p", "t", "a", "t",
         "e", "u", "r">>,
     <<"e/", "c", "r", "a", "n">>, <<"m", "o", "n", "i", "t", "e", "u", "r">>,
         <<"e", "n", "c", "e", "i", "n", "t", "e">>, <<"h", "a", "u", "t", "-",
         "p", "a", "r", "l", "e", "u", "r">>,
     <<"c", "a", "s", "q", "u", "e">>, <<"w", "e", "b", "c", "a", "m">>, <<"h",
         "u", "b">>, <<"s", "t", "a", "t", "i", "o", "n">>, <<"r", "e", "f",
         "r", "o", "i", "d", "i", "s", "s", "e", "u", "r">>,
     <<"v", "e", "n", "t", "i", "l", "a", "t", "e", "u", "r">>, <<"l", "a",
         "m", "p", "e">>, <<"s", "t", "i", "c", "k", "e", "r", "s">>, <<"a",
         "u", "t", "o", "c", "o", "l", "l", "a", "n", "t">>}

\* filtrer_accessoires.est_accessoire
est_accessoire(titre) ==
    \E mot \in mots_cles_accessoires : Contains(lower(str(titre)), mot)

\* The rows of a collection at the positions kept, in their order.
KeepRows(rows, kept) ==
    LET marked == SelectSeq([i \in 1..Len(rows) |-> [row |-> rows[i], keep |-> i \in kept]],
                            LAMBDA x : x.keep)
    IN  [k \in 1..Len(marked) |-> marked[k].row]

\* drop_duplicates that drops only a row that repeats the reference of the row
\* right before it.
drop_duplicates_adjacent(rows) ==
    KeepRows(rows, {i \in 1..Len(rows) :
                      IF i = 1 THEN TRUE ELSE rows[i - 1].Image_URL /= rows[i].Image_URL})

\* DataFrame.drop_duplicates(subset=['Image_URL'], keep='first'): pandas holds
\* two missing values of the key to be equal.
drop_duplicates(rows) ==
    KeepRows(rows, {i \in 1..Len(rows) :
                      \A j \in 1..(i - 1) : rows[j].Image_URL /= rows[i].Image_URL})

-----------------------------------------------------------------------------
(* DataCleaner: the steps on the raw file *)

\* The columns of the raw file that DataCleaner reads (Discount, Source and
\* Date_Collecte are carried along untouched and left out).
RawCols == {"Titre", "Prix_Actuel", "Ancien_Prix", "Rating", "Image_URL"}

\* A row of the raw file.  The text cells hold None or Some(text); the image
\* reference holds None or Some of a number that stands for the URL.  The
\* columns of the parsing steps are not there yet: their fields hold a
\* placeholder.
RawRow(key, titre, prix, ancien, rating, image) ==
    [key |-> key,
     Titre |-> titre,
     Prix_Actuel |-> prix,
     Ancien_Prix |-> ancien,
     Rating |-> rating,
     Image_URL |-> image,
     Prix_Actuel_Clean |-> None,
     Ancien_Prix_Clean |-> None,
     Reduction_Reelle |-> 0,
     Rating_Clean |-> None,
     Marque |-> "",
     CPU |-> "",
     Generation_CPU |-> None,
     RAM_GB |-> None,
     Stockage_GB |-> None,
     Type_Stockage |-> NaN,
     Etat_Produit |-> ""]

\* pandas.read_csv: the texts that are read as a missing value (the default
\* na_values, as far as the texts of the model go).
na_values ==
    {<<>>, <<"N", "/", "A">>, <<"N", "A">>, <<"n", "/", "a">>, <<"n", "a", "n">>,
        <<"N", "a", "N">>, <<"n", "u", "l", "l">>, <<"N", "U", "L", "L">>, <<"N",
        "o", "n", "e">>}

read_cell(cell) == IF isna(cell) THEN None ELSE IF Val(cell) \in na_values THEN None ELSE cell

\* pandas.read_csv on the raw file.  A column of numbers only is read as
\* numbers and written back by str() with the same value.
read_csv(rows) ==
    [i \in 1..Len(rows) |->
        [rows[i] EXCEPT !.Titre = read_cell(@), !.Prix_Actuel = read_cell(@),
                        !.Ancien_Prix = read_cell(@), !.Rating = read_cell(@)]]

\* charger_donnees: an exception of read_csv is caught and False returned,
\* which ends the loop as an exception of any other step does.
DC_charger_donnees ==
    DC_StepStats("DC.charger_donnees", "DC.nettoyer_prix", read_csv(input.df),
        input.cols,
                 [stats EXCEPT !.produits_initiaux = Len(input.df)])

DC_nettoyer_prix ==
    LET parsed == [i \in 1..Len(df) |->
                      [df[i] EXCEPT !.Prix_Actuel_Clean = extraire_prix(df[i].Prix_Actuel),
                                    !.Ancien_Prix_Clean = extraire_prix(df[i].Ancien_Prix)]]
    IN  DC_Step("DC.nettoyer_prix", "DC.nettoyer_rating",
                [i \in 1..Len(df) |->
                    [parsed[i] EXCEPT !.Reduction_Reelle = calculer_reduction_row(parsed[i])]],
                cols \cup {"Prix_Actuel_Clean", "Ancien_Prix_Clean", "Reduction_Reelle"})

DC_nettoyer_rating ==
    DC_Step("DC.nettoyer_rating", "DC.extraire_marque",
            [i \in 1..Len(df) |->
                [df[i] EXCEPT !.Rating_Clean = extraire_rating(df[i].Rating)]],
            cols \cup {"Rating_Clean"})

DC_extraire_marque ==
    DC_Step("DC.extraire_marque", "DC.extraire_specs_techniques",
            [i \in 1..Len(df) |-> [df[i] EXCEPT !.Marque = detecter_marque(df[i].Titre)]],
            cols \cup {"Marque"})

DC_extraire_specs_techniques ==
    DC_Step("DC.extraire_specs_techniques", "DC.detecter_etat_produit",
            [i \in 1..Len(df) |->
                [df[i] EXCEPT !.CPU = extraire_cpu(df[i].Titre),
                              !.Generation_CPU = extraire_generation(df[i].Titre),
                              !.RAM_GB = extraire_ram(df[i].Titre),
                              !.Stockage_GB = extraire_stockage(df[i].Titre)[1],
                              !.Type_Stockage = extraire_stockage(df[i].Titre)[2]]],
            cols \cup {"CPU", "Generation_CPU", "RAM_GB", "Stockage_GB", "Type_Stockage"})

DC_detecter_etat_produit ==
    DC_Step("DC.detecter_etat_produit", "DC.filtrer_accessoires",
            [i \in 1..Len(df) |->
                [df[i] EXCEPT !.Etat_Produit = classifier_etat(df[i].Titre)]],
            cols \cup {"Etat_Produit"})

DC_filtrer_accessoires ==
    LET accessoires == {i \in 1..Len(df) : est_accessoire(df[i].Titre)}
    IN  DC_StepStats("DC.filtrer_accessoires", "DC.supprimer_doublons",
                     KeepRows(df, (1..Len(df)) \ accessoires), cols,
                     [stats EXCEPT !.accessoires_filtres = Cardinality(accessoires)])

DC_supprimer_doublons ==
    LET nb_avant == Len(df)
        nb_apres == Len(drop_duplicates(df))
    IN  DC_StepStats("DC.supprimer_doublons", "DC.calculer_completude",
                     drop_duplicates(df), cols,
                     [stats EXCEPT !.doublons_supprimes = nb_avant - nb_apres])

\* The parsing steps and the two filters of DataCleaner; the run is followed
\* up to the point where the duplicates are removed.
NextClean ==
    \/ DC_charger_donnees
    \/ DC_nettoyer_prix
    \/ DC_nettoyer_rating
    \/ DC_extraire_marque
    \/ DC_extraire_specs_techniques
    \/ DC_detecter_etat_produit
    \/ DC_filtrer_accessoires
    \/ DC_supprimer_doublons

\* The texts of at most n characters of an alphabet.
TextsUpTo(alphabet, n) == UNION {[1..k -> alphabet] : k \in 0..n}

RECURSIVE Concat(_)
Concat(pieces) == IF pieces = <<>> THEN <<>> ELSE pieces[1] \o Concat(Tail(pieces))

\* The price texts: every text of at most MaxPriceText characters of the
\* alphabet, and some longer ones.
PriceAlphabet == {"1", "0", ",", ".", "D"}
PriceTexts ==
    TextsUpTo(PriceAlphabet, MaxPriceText)
    \cup {<<"1", ",", "3", "8", "9", ".", "0", "0", " ", "D", "h", "s">>, <<"N",
        "/", "A">>, <<"D", "h", "s">>, <<"1", ".", "3", "8", "9", ",", "0",
        "0", " ", "D", "h", "s">>, <<"1", "2", ".", "5", "0", ".", "3">>,
          <<"-", "1", "5", " ", "D", "h", "s">>, <<"1", "0", " ", "-", " ",
              "1", "5", " ", "D", "h", "s">>}
PriceCells == {None} \cup {Some(t) : t \in PriceTexts}

\* The rating texts: every text made of at most MaxRatingPieces of the pieces,
\* and some longer ones.
RatingPieces == {<<"4">>, <<"1", "0">>, <<".">>, <<" ">>, <<"o", "u", "t", " ",
    "o", "f">>}
RatingTexts ==
    {Concat(p) : p \in TextsUpTo(RatingPieces, MaxRatingPieces)}
    \cup {<<"4", ".", "5", " ", "o", "u", "t", " ", "o", "f", " ", "5">>, <<"1",
        "0", " ", "o", "u", "t", " ", "o", "f", " ", "1", "0">>, <<"4", " ",
        "o", "u", "t", " ", "o", "f", " ", "5">>, <<"N", "/", "A">>,
          <<"4", ".", "5", " ", "o", "u", "t", " ", "o", "f", " ", "s", "t",
              "o", "c", "k">>, <<"4", ".", "5", "/", "5">>, <<"4", ".", "5",
              "o", "u", "t", " ", "o", "f", " ", "5">>, <<"1", ".", "4", ".",
              "5", " ", "o", "u", "t", " ", "o", "f", " ", "5">>}
RatingCells == {None} \cup {Some(t) : t \in RatingTexts}

\* A laptop and an accessory, by their titles, and a laptop with every
\* specification in its title.
LaptopTitle == <<"H", "P", " ", "i", "5">>
AccessoryTitle == <<"S", "o", "u", "r", "i", "s", " ", "H", "P">>
FullTitle == <<"H", "P", " ", "P", "a", "v", "i", "l", "i", "o", "n", " ", "i",
    "5", " ", "1", "1", "e", " ", "G", "e", "n", " ", "8", "G", "B", " ", "R",
    "A", "M", " ", "5", "1", "2", "G", "B", " ", "S", "S", "D", " ", "N", "e",
    "u", "f">>

\* Some titles: laptops, accessories, and a laptop whose title holds the word
\* of an accessory.
Titles ==
    {None, Some(LaptopTitle), Some(AccessoryTitle), Some(FullTitle),
     Some(<<"S", "a", "c", "o", "c", "h", "e", " ", "P", "C", " ", "1", "5",
         " ", "p", "o", "u", "c", "e", "s">>),
     Some(<<"D", "e", "l", "l", " ", "P", "r", "e", "c", "i", "s", "i", "o",
         "n", " ", "W", "o", "r", "k", "s", "t", "a", "t", "i", "o", "n", " ",
         "i", "7", " ", "3", "2", "G", "o", " ", "D", "D", "R", "4", " ", "1",
         "T", "B">>),
     Some(<<"L", "e", "n", "o", "v", "o", " ", "I", "d", "e", "a", "P", "a",
         "d", " ", "R", "y", "z", "e", "n", " ", "5", " ", "8", "G", "o", " ",
         "5", "0", "0", "G", "o", " ", "H", "D", "D", " ", "o", "c", "c", "a",
         "s", "i", "o", "n">>),
     Some(<<"A", "S", "U", "S", " ", "C", "e", "l", "e", "r", "o", "n", " ",
         "4", "G", "B", " ", "1", "2", "8", "G", "B", " ", "r", "e", "c", "o",
         "n", "d", "i", "t", "i", "o", "n", "n", "e">>),
     Some(<<"L", "a", "p", "t", "o", "p", " ", "C", "o", "r", "e", " ", "i",
         "3", " ", "1", "0", "t", "h", " ", "G", " ", "4", " ", "G", "B", " ",
         "R", "A", "M", " ", "1", " ", "T", "o">>),
     Some(<<"P", "C", " ", "P", "o", "r", "t", "a", "b", "l", "e", " ", "1",
         "5", ".", "6", " ", "p", "o", "u", "c", "e", "s">>),
     Some(<<"P", "C", " ", "i", "3", "0", " ", "8", "G", "o", " ", "R", "A", "M">>),
     Some(<<"H", "P", " ", "R", "y", "z", "e", "n", " ", "9", " ", "i", "3">>),
     Some(<<"L", "a", "p", "t", "o", "p", " ", "5", "0", "0", " ", "G", "o">>),
     Some(<<"H", "P", " ", "2", "5", "6", "G", "B", " ", "S", "S", "D", " ",
         "1", "T", "B", " ", "H", "D", "D">>)}

\* The texts of the examples.
PriceExample == <<"1", ",", "3", "8", "9", ".", "0", "0", " ", "D", "h", "s">>
OldPriceExample == <<"2", "0", " ", "D", "h", "s">>
ZeroPrice == <<"0", " ", "D", "h", "s">>
RatingExample == <<"4", ".", "5", " ", "o", "u", "t", " ", "o", "f", " ", "5">>

PriceFiles ==
    { <<RawRow(1, Some(LaptopTitle), prix, ancien, Some(RatingExample), Some(1))>> :
        prix \in PriceCells, ancien \in {None, Some(OldPriceExample)} }
    \cup { <<RawRow(1, Some(LaptopTitle), Some(PriceExample), Some(ZeroPrice),
                    Some(RatingExample), Some(1))>>,
           <<RawRow(1, Some(LaptopTitle), Some(PriceExample), None, None, Some(1)),
             RawRow(2, Some(LaptopTitle), Some(<<"N", "/", "A">>), None, None, Some(2)),
             RawRow(3, Some(LaptopTitle), Some(<<>>), None, None, Some(3)),
             RawRow(4, Some(LaptopTitle), None, Some(PriceExample), None, Some(4))>> }

RatingFiles ==
    { <<RawRow(1, Some(LaptopTitle), Some(PriceExample), None, rating, Some(1))>> :
        rating \in RatingCells }

TitleFiles ==
    { <<RawRow(1, titre, Some(PriceExample), None, None, image)>> :
        titre \in Titles, image \in {None, Some(1)} }

\* Files of at most MaxGate rows, laptops and accessories, with image
\* references that repeat or are missing.
GateFiles ==
    UNION { { [i \in 1..n |->
                 RawRow(i, Some(t[i]), Some(PriceExample), None, None, img[i])] :
              t \in [1..n -> {LaptopTitle, AccessoryTitle}],
              img \in [1..n -> {None, Some(1), Some(2)}] } :
            n \in 1..MaxGate }

\* A file of 100 rows: five accessories (rows 10, 20, 30, 40 and 50), three rows
\* (61, 62 and 63) that repeat the image reference of the laptops of rows 1, 2
\* and 3, and `blanks` laptops (from row 71 on) without an image reference;
\* every other row has an image reference of its own.
ScenarioFile(blanks) ==
    [i \in 1..100 |->
        RawRow(i,
               IF i % 10 = 0 /\ i <= 50 THEN Some(AccessoryTitle) ELSE Some(LaptopTitle),
               Some(PriceExample), None, None,
               IF i \in 61..63 THEN Some(i - 60)
               ELSE IF i \in 71..(70 + blanks) THEN None
               ELSE Some(i))]

\* DataCleaner at the start of executer_pipeline_complet, on a raw file.
InitCleaner(rows) ==
    /\ pc = "DC.charger_donnees"
    /\ df = <<>>
    /\ cols = {}
    /\ cleaned_csv = NoFile
    /\ enriched_csv = NoFile
    /\ advanced_csv = NoFile
    /\ results = Pending
    /\ env = Env(TRUE, TRUE, FALSE, FALSE, FALSE)
    /\ faults = 0
    /\ raised = {}
    /\ ran = {}
    /\ survivors = Keys(rows)
    /\ stats = NoStats
    /\ lib = NoAnswers
    /\ run = 1
    /\ input = [pc |-> "DC.charger_donnees", df |-> rows, cols |-> RawCols]
    /\ first_run = NoRun
    /\ Idle

InitClean ==
    \E rows \in PriceFiles \cup RatingFiles \cup TitleFiles \cup GateFiles
                \cup {ScenarioFile(blanks) : blanks \in 0..2} :
        InitCleaner(rows)

SpecClean == InitClean /\ [][NextClean]_vars

-----------------------------------------------------------------------------
(* main.py: the orchestrator of the stages *)

\* results = {} of executer_pipeline_complet: no stage has answered yet.
NoResults ==
    [scraping |-> "pending", nettoyage |-> "pending", enrichissement |-> "pending",
     ia_avancee |-> "pending", database |-> "pending", visualisation |-> "pending"]

\* A file on the disk that run n of the pipeline wrote.
Written(n) == [exists |-> TRUE, rows |-> <<>>, cols |-> {}, run |-> n]

\* get_latest_data_file: the first of the three files that exists, or None.
get_latest_data_file(advanced, enriched, cleaned) ==
    IF advanced.exists
    THEN Some([name |-> "ai_advanced_complete.csv", file |-> advanced])
    ELSE IF enriched.exists
    THEN Some([name |-> "enriched_data.csv", file |-> enriched])
    ELSE IF cleaned.exists
    THEN Some([name |-> "cleaned_data.csv", file |-> cleaned])
    ELSE None

\* executer_pipeline_complet between two stages, with the database stage
\* called whatever the cleaning answered.
next_stage_database_always(stage, ok) ==
    CASE stage = "main.etape_1_collecte" ->
             [pc |-> IF ok THEN "main.etape_2a_nettoyage" ELSE "done", skipped |-> {}]
      [] stage = "main.etape_2a_nettoyage" ->
             IF ok THEN [pc |-> "main.etape_2b_enrichissement", skipped |-> {}]
             ELSE [pc |-> "main.etape_3_base_de_donnees",
                   skipped |-> {"enrichissement", "ia_avancee"}]
      [] stage = "main.etape_2b_enrichissement" ->
             IF ok THEN [pc |-> "main.etape_2c_ia_avancee", skipped |-> {}]
             ELSE [pc |-> "main.etape_3_base_de_donnees", skipped |-> {"ia_avancee"}]
      [] stage = "main.etape_2c_ia_avancee" ->
             [pc |-> "main.etape_3_base_de_donnees", skipped |-> {}]
      [] stage = "main.etape_3_base_de_donnees" ->
             [pc |-> "main.etape_4_visualisation", skipped |-> {}]
      [] stage = "main.etape_4_visualisation" -> [pc |-> "done", skipped |-> {}]

\* executer_pipeline_complet between two stages: the stage it calls after
\* `stage` has answered ok, and the stages it skips on the way, whose result
\* it sets to False.
next_stage(stage, ok) ==
    CASE stage = "main.etape_1_collecte" ->
             [pc |-> IF ok THEN "main.etape_2a_nettoyage" ELSE "done", skipped |-> {}]
      [] stage = "main.etape_2a_nettoyage" ->
             IF ok THEN [pc |-> "main.etape_2b_enrichissement", skipped |-> {}]
             ELSE [pc |-> "main.etape_4_visualisation",
                   skipped |-> {"enrichissement", "ia_avancee", "database"}]
      [] stage = "main.etape_2b_enrichissement" ->
             IF ok THEN [pc |-> "main.etape_2c_ia_avancee", skipped |-> {}]
             ELSE [pc |-> "main.etape_3_base_de_donnees", skipped |-> {"ia_avancee"}]
      [] stage = "main.etape_2c_ia_avancee" ->
             [pc |-> "main.etape_3_base_de_donnees", skipped |-> {}]
      [] stage = "main.etape_3_base_de_donnees" ->
             [pc |-> "main.etape_4_visualisation", skipped |-> {}]
      [] stage = "main.etape_4_visualisation" -> [pc |-> "done", skipped |-> {}]

\* A stage is called and answers ok: its result is stored and the orchestrator
\* goes to the next stage.
StageAnswers(stage, key, ok) ==
    /\ pc = stage
    /\ called' = Append(called, stage)
    /\ results' = [k \in DOMAIN results |->
                      IF k = key THEN (IF ok THEN "True" ELSE "False")
                      ELSE IF k \in next_stage(stage, ok).skipped THEN "False"
                      ELSE results[k]]
    /\ pc' = next_stage(stage, ok).pc
    /\ UNCHANGED <<df, cols, env, faults, raised, ran, survivors, stats, lib, run,
                   input, first_run, scraper, page, attempt, history>>

etape_1_collecte ==
    \E ok \in BOOLEAN :
        /\ StageAnswers("main.etape_1_collecte", "scraping", ok)
        /\ UNCHANGED <<cleaned_csv, enriched_csv, advanced_csv, loaded>>

\* DataCleaner saves cleaned_data.csv in its last step but one: when the
\* stage fails, the file of this run may be there already.
etape_2a_nettoyage ==
    \E ok \in BOOLEAN :
        /\ StageAnswers("main.etape_2a_nettoyage", "nettoyage", ok)
        /\ cleaned_csv' \in IF ok THEN {Written(run)} ELSE {cleaned_csv, Written(run)}
        /\ UNCHANGED <<enriched_csv, advanced_csv, loaded>>

\* FeatureExtractor saves enriched_data.csv in its last step.
etape_2b_enrichissement ==
    \E ok \in BOOLEAN :
        /\ StageAnswers("main.etape_2b_enrichissement", "enrichissement", ok)
        /\ enriched_csv' = IF ok THEN Written(run) ELSE enriched_csv
        /\ UNCHANGED <<cleaned_csv, advanced_csv, loaded>>

\* The stage answers False without running the pipeline when enriched_data.csv
\* or the module is missing or cannot be imported, and when the pipeline
\* cannot load its data.  AdvancedAIPipeline.execute_full_pipeline answers
\* True also when save_results raised: the file may then be what it was.
etape_2c_ia_avancee ==
    \E ok \in BOOLEAN :
        /\ StageAnswers("main.etape_2c_ia_avancee", "ia_avancee", ok /\ enriched_csv.exists)
        /\ advanced_csv' \in IF ok /\ enriched_csv.exists
                             THEN {Written(run), advanced_csv}
                             ELSE {advanced_csv}
        /\ UNCHANGED <<cleaned_csv, enriched_csv, loaded>>

\* The stage answers False when the module is missing, when there is no data
\* file, or when the load raises; it loads the file get_latest_data_file
\* names.
etape_3_base_de_donnees ==
    \E ok \in BOOLEAN, reached \in BOOLEAN :
        LET data_file == get_latest_data_file(advanced_csv, enriched_csv, cleaned_csv)
            done == ok /\ notna(data_file)
        IN  /\ ok => reached
            /\ StageAnswers("main.etape_3_base_de_donnees", "database", done)
            /\ loaded' = IF reached /\ notna(data_file) THEN data_file ELSE loaded
            /\ UNCHANGED <<cleaned_csv, enriched_csv, advanced_csv>>

etape_4_visualisation ==
    /\ StageAnswers("main.etape_4_visualisation", "visualisation", TRUE)
    /\ UNCHANGED <<cleaned_csv, enriched_csv, advanced_csv, loaded>>

\* main is invoked once more, on the disk as the run before left it.
main_again ==
    /\ pc = "done"
    /\ run < MaxRuns
    /\ run' = run + 1
    /\ pc' = "main.etape_1_collecte"
    /\ results' = NoResults
    /\ called' = <<>>
    /\ loaded' = None
    /\ UNCHANGED <<df, cols, cleaned_csv, enriched_csv, advanced_csv, env, faults,
                   raised, ran, survivors, stats, lib, input, first_run, scraper,
                   page, attempt, history>>

\* executer_pipeline_complet at its start, in the first run on an empty disk.
InitPipeline ==
    /\ pc = "main.etape_1_collecte"
    /\ df = <<>>
    /\ cols = {}
    /\ cleaned_csv = NoFile
    /\ enriched_csv = NoFile
    /\ advanced_csv = NoFile
    /\ results = NoResults
    /\ env = Env(TRUE, TRUE, FALSE, FALSE, FALSE)
    /\ faults = 0
    /\ raised = {}
    /\ ran = {}
    /\ survivors = <<>>
    /\ stats = NoStats
    /\ lib = NoAnswers
    /\ run = 1
    /\ input = [pc |-> "main.etape_1_collecte", df |-> <<>>, cols |-> {}]
    /\ first_run = NoRun
    /\ Idle

NextPipeline ==
    \/ etape_1_collecte
    \/ etape_2a_nettoyage
    \/ etape_2b_enrichissement
    \/ etape_2c_ia_avancee
    \/ etape_3_base_de_donnees
    \/ etape_4_visualisation
    \/ main_again

\* The stages of the runs of main, one run after the other; a stage that is
\* called returns.
SpecPipeline ==
    InitPipeline /\ [][NextPipeline]_vars /\ WF_vars(NextPipeline /\ pc' /= pc)

-----------------------------------------------------------------------------
(* scraper.py: the pages and the attempts *)

\* JumiaScraper.__init__ with the configuration it reads.
NewScraper(retry_count, pages_a_scraper) ==
    [driver |-> "None", products |-> <<>>, retry_count |-> retry_count,
     pages_a_scraper |-> pages_a_scraper]

\* The products extraire_produit gave on a page that loaded at an attempt.
page_products(p, a, found) == [i \in 1..found |-> [page |-> p, attempt |-> a, item |-> i]]

\* The test of scraper_page after a failure, passing at the last attempt too.
retries_once_more(a, retry_count) == a <= retry_count

\* scraper_page after a timeout or an exception: "if attempt <
\* self.retry_count", the page is loaded again.
retries(a, retry_count) == a < retry_count

RpaUnchanged ==
    UNCHANGED <<df, cols, cleaned_csv, enriched_csv, advanced_csv, results, env,
                faults, ran, survivors, stats, lib, run, input, first_run, called,
                loaded>>

\* lancer_scraping calls configurer_navigateur.  When webdriver.Chrome raises
\* there is no driver; when execute_script raises, the driver is there and
\* the finally clause quits it.  The exception is raised again.
configurer_navigateur ==
    /\ pc = "RPA.configurer_navigateur"
    /\ \E outcome \in {"configured", "no driver", "script failed"} :
           /\ scraper' = [scraper EXCEPT !.driver =
                             CASE outcome = "configured" -> "open"
                               [] outcome = "no driver" -> "None"
                               [] outcome = "script failed" -> "closed"]
           /\ raised' = IF outcome = "configured" THEN raised
                        ELSE raised \cup {"RPA.configurer_navigateur"}
           /\ pc' = IF outcome = "configured" THEN "RPA.lancer_scraping" ELSE "done"
    /\ UNCHANGED <<page, attempt, history>>
    /\ RpaUnchanged

\* The loop of lancer_scraping goes to the next page and calls scraper_page,
\* whose loop over the attempts is empty when retry_count is 0.
lancer_scraping_page ==
    /\ pc = "RPA.lancer_scraping"
    /\ page < scraper.pages_a_scraper
    /\ page' = page + 1
    /\ attempt' = 1
    /\ pc' = IF scraper.retry_count >= 1 THEN "RPA.scraper_page" ELSE "RPA.lancer_scraping"
    /\ UNCHANGED <<scraper, history, raised>>
    /\ RpaUnchanged

\* One attempt of scraper_page: the page is loaded; it gives its products,
\* which lancer_scraping adds to self.products, or the wait times out, or an
\* exception is raised and caught.
scraper_page ==
    /\ pc = "RPA.scraper_page"
    /\ \E outcome \in {"products", "timeout", "exception"}, found \in 0..MaxProducts :
           /\ outcome /= "products" => found = 0
           /\ history' = Append(history, [page |-> page, attempt |-> attempt,
                                          outcome |-> outcome, found |-> found])
           /\ IF outcome = "products"
              THEN /\ scraper' = [scraper EXCEPT !.products =
                                     @ \o page_products(page, attempt, found)]
                   /\ pc' = "RPA.lancer_scraping"
                   /\ UNCHANGED attempt
              ELSE IF retries(attempt, scraper.retry_count)
              THEN /\ attempt' = attempt + 1
                   /\ UNCHANGED <<scraper, pc>>
              ELSE /\ pc' = "RPA.lancer_scraping"
                   /\ UNCHANGED <<scraper, attempt>>
    /\ UNCHANGED <<page, raised>>
    /\ RpaUnchanged

\* After the last page: the finally clause quits the driver and
\* lancer_scraping returns self.products.
lancer_scraping_end ==
    /\ pc = "RPA.lancer_scraping"
    /\ page >= scraper.pages_a_scraper
    /\ scraper' = [scraper EXCEPT !.driver = "closed"]
    /\ pc' = "done"
    /\ UNCHANGED <<page, attempt, history, raised>>
    /\ RpaUnchanged

InitScraper ==
    /\ pc = "RPA.configurer_navigateur"
    /\ df = <<>>
    /\ cols = {}
    /\ cleaned_csv = NoFile
    /\ enriched_csv = NoFile
    /\ advanced_csv = NoFile
    /\ results = NoResults
    /\ env = Env(TRUE, TRUE, FALSE, FALSE, FALSE)
    /\ faults = 0
    /\ raised = {}
    /\ ran = {}
    /\ survivors = <<>>
    /\ stats = NoStats
    /\ lib = NoAnswers
    /\ run = 1
    /\ input = [pc |-> "RPA.configurer_navigateur", df |-> <<>>, cols |-> {}]
    /\ first_run = NoRun
    /\ called = <<>>
    /\ loaded = None
    /\ \E retry_count \in 0..MaxRetries, pages_a_scraper \in 1..MaxPages :
           scraper = NewScraper(retry_count, pages_a_scraper)
    /\ page = 0
    /\ attempt = 0
    /\ history = <<>>

NextScraper ==
    \/ configurer_navigateur
    \/ lancer_scraping_page
    \/ scraper_page
    \/ lancer_scraping_end

SpecScraper == InitScraper /\ [][NextScraper]_vars

-----------------------------------------------------------------------------
(* Properties *)

Rows == 1..Len(df)
Has(c) == c \in cols

\* The five signals of the suspicion aggregation, as the collection holds them.
SignalML(row) == Has("Anomalie_ML") /\ row.Anomalie_ML
SignalPrix(row) ==
    \/ Has("Anomalie_Prix_ZScore") /\ row.Anomalie_Prix_ZScore
    \/ Has("Anomalie_Prix_IQR") /\ row.Anomalie_Prix_IQR
SignalSeverite(row) == Has("Severite_Incoherence") /\ row.Severite_Incoherence >= 3
SignalCompletude(row) == Has("Taux_Completude") /\ row.Taux_Completude < 400
SignalPrixExtreme(row) ==
    /\ Has("Prix_Actuel_Clean") /\ notna(row.Prix_Actuel_Clean)
    /\ Val(row.Prix_Actuel_Clean) < 500 \/ Val(row.Prix_Actuel_Clean) > 20000

ReasonsExpected(row) ==
    (IF SignalML(row) THEN <<"Anomalie ML">> ELSE <<>>)
    \o (IF SignalPrix(row) THEN <<"Anomalie prix">> ELSE <<>>)
    \o (IF SignalSeverite(row) THEN <<"Incoherence majeure">> ELSE <<>>)
    \o (IF SignalCompletude(row) THEN <<"Donnees incompletes">> ELSE <<>>)
    \o (IF SignalPrixExtreme(row) THEN <<"Prix extreme">> ELSE <<>>)

\* C1: once flag_suspicious_products has run, a record is suspect exactly when
\* one of the five signals holds (ML flag; z-score or IQR flag; severity >= 3;
\* completeness < 40; price present and < 500 or > 20000); its reasons are the
\* signals that fired, in that order, and are the placeholder "OK" exactly
\* when the record is not suspect.
C1_SuspicionAggregation ==
    "AD.flag_suspicious_products" \in ran =>
        \A i \in Rows :
            /\ df[i].Produit_Suspect <=>
                   \/ SignalML(df[i])
                   \/ SignalPrix(df[i])
                   \/ SignalSeverite(df[i])
                   \/ SignalCompletude(df[i])
                   \/ SignalPrixExtreme(df[i])
            /\ df[i].Raisons_Suspicion =
                   IF ReasonsExpected(df[i]) = <<>> THEN <<"OK">>
                   ELSE ReasonsExpected(df[i])
            /\ (df[i].Raisons_Suspicion = <<"OK">>) <=> ~df[i].Produit_Suspect

\* One record flagged for three signals next to one that is not suspect.
C1_Witness ==
    /\ "AD.flag_suspicious_products" \in ran
    /\ \E i, j \in Rows :
         /\ df[i].Produit_Suspect
         /\ df[i].Raisons_Suspicion = <<"Anomalie ML", "Anomalie prix", "Prix extreme">>
         /\ ~df[j].Produit_Suspect
         /\ df[j].Raisons_Suspicion = <<"OK">>

\* C2: whatever the input fields hold (absent fields, a rating above 5, a
\* negative discount), Performance_Index, Score_Qualite and Indice_Confiance
\* lie in [0, 100] wherever the collection holds them.
C2_ScoresInRange ==
    \A i \in Rows :
        /\ Has("Performance_Index") =>
               df[i].Performance_Index >= 0 /\ df[i].Performance_Index <= 1000
        /\ Has("Score_Qualite") =>
               df[i].Score_Qualite >= 0 /\ df[i].Score_Qualite <= 1000
        /\ Has("Indice_Confiance") =>
               df[i].Indice_Confiance >= 0 /\ df[i].Indice_Confiance <= 1000

\* A record with a rating of 10, a negative discount and no RAM whose three
\* indices are there, the quality score at its upper limit.
C2_Witness ==
    /\ Has("Indice_Confiance")
    /\ \E i \in Rows :
         /\ df[i].Rating_Clean = Some(100)
         /\ df[i].Reduction_Reelle < 0
         /\ isna(df[i].RAM_GB)
         /\ df[i].Score_Qualite = 1000

\* The cascade of the tier, on the three inputs.
TierOf(prix, cpu, ram) ==
    CASE isna(prix) -> "Non classe"
      [] notna(prix) /\ (\/ Val(prix) > 5000
                         \/ cpu \in {"i7", "i9", "Ryzen 7", "Ryzen 9"}
                         \/ (notna(ram) /\ Val(ram) >= 16)) -> "Haut de gamme"
      [] OTHER ->
           IF \/ Val(prix) < 2500
              \/ cpu \in {"Celeron", "Pentium", "i3"}
              \/ (notna(ram) /\ Val(ram) <= 4)
           THEN "Entree de gamme"
           ELSE "Milieu de gamme"

\* C3: once classifier_par_gamme has run, the tier of every record is the
\* first match of the cascade on (price, CPU family, RAM) -- unclassified
\* without a price; high above 5000 Dhs or with an i7/i9/Ryzen 7/Ryzen 9 or
\* with 16 GB or more; entry under 2500 Dhs or with a Celeron/Pentium/i3 or with
\* 4 GB or less; middle otherwise -- whatever the other fields hold, and the
\* later steps leave it as it is.
C3_TierCascade ==
    Has("Gamme") =>
        \A i \in Rows :
            df[i].Gamme = TierOf(df[i].Prix_Actuel_Clean, df[i].CPU, df[i].RAM_GB)

\* A middle-tier record, after the scoring steps have run on it.
C3_Witness ==
    /\ Has("Gamme") /\ Has("Score_Qualite")
    /\ \E i \in Rows :
         /\ df[i].Gamme = "Milieu de gamme"
         /\ df[i].Prix_Actuel_Clean = Some(2800)
         /\ df[i].RAM_GB = Some(8)
         /\ df[i].Etat_Produit = "Non specifie"


\* C4: once the inconsistency rules and the flagging have run, every record
\* with Performance_Index >= 80 and a price under 3000 Dhs holds the issue
\* "high performance, low price", a severity of 3 or more, and is suspect.
C4_HighPerfLowPrice ==
    {"AD.detect_spec_price_inconsistencies", "AD.flag_suspicious_products"} \subseteq ran =>
        \A i \in Rows :
            ( /\ Has("Performance_Index") /\ df[i].Performance_Index >= 800
              /\ Has("Prix_Actuel_Clean") /\ notna(df[i].Prix_Actuel_Clean)
              /\ Val(df[i].Prix_Actuel_Clean) < 3000 )
            => /\ \E k \in 1..Len(df[i].Incoherence_Spec_Prix) :
                     df[i].Incoherence_Spec_Prix[k] = "Haute perf mais prix bas"
               /\ df[i].Severite_Incoherence >= 3
               /\ df[i].Produit_Suspect

\* A record at 2800 Dhs with an index of 88 that is suspect for this rule alone.
C4_Witness ==
    /\ "AD.flag_suspicious_products" \in ran
    /\ \E i \in Rows :
         /\ df[i].Performance_Index = 880
         /\ df[i].Prix_Actuel_Clean = Some(2800)
         /\ df[i].Incoherence_Spec_Prix = <<"Haute perf mais prix bas">>
         /\ df[i].Severite_Incoherence = 3
         /\ df[i].Raisons_Suspicion = <<"Incoherence majeure">>

\* The records of a tier that hold a price.
PricedInTier(gamme) ==
    {i \in Rows : df[i].Gamme = gamme /\ notna(df[i].Prix_Actuel_Clean)}

\* C5: detect_price_anomalies_statistical does not fail on a collection that
\* holds tiers and prices, and once it has run no record of a tier with fewer
\* than 3 priced records, and no unclassified record, has a z-score flag or an
\* IQR flag; its label is "Normal".
C5_SmallTiersSkipped ==
    /\ (Has("Gamme") /\ Has("Prix_Actuel_Clean")) =>
           "AD.detect_price_anomalies_statistical" \notin raised
    /\ "AD.detect_price_anomalies_statistical" \in ran =>
           \A i \in Rows :
               (df[i].Gamme = "Non classe" \/ Cardinality(PricedInTier(df[i].Gamme)) < 3)
               => /\ ~df[i].Anomalie_Prix_ZScore
                  /\ ~df[i].Anomalie_Prix_IQR
                  /\ df[i].Type_Anomalie_Prix = <<"Normal">>

\* A tier of exactly two priced records of different prices, next to a tier of
\* one record and an unclassified record, after the step.
C5_Witness ==
    /\ "AD.detect_price_anomalies_statistical" \in ran
    /\ \E i, j, k, l \in Rows :
         /\ df[i].Gamme = df[j].Gamme
         /\ Cardinality(PricedInTier(df[i].Gamme)) = 2
         /\ df[i].Prix_Actuel_Clean = Some(400)
         /\ df[j].Prix_Actuel_Clean = Some(2400)
         /\ Cardinality(PricedInTier(df[k].Gamme)) = 1
         /\ df[l].Gamme = "Non classe"


\* The steps that read an input file.
LoadSteps == {"FE.charger_donnees", "AP.load_data"}

\* The steps of main's run from the completeness step on.
CleaningSteps ==
    {"DC.calculer_completude", "DC.classifier_par_gamme",
     "DC.sauvegarder_donnees_nettoyees", "DC.generer_rapport_qualite"}
EnrichmentSteps ==
    {"FE.charger_donnees", "FE.calculer_score_performance", "FE.calculer_score_qualite",
     "FE.calculer_rapport_qualite_prix", "FE.detecter_bonnes_affaires",
     "FE.detecter_anomalies_prix", "FE.analyser_sentiment_description",
     "FE.creer_tags_produit", "FE.sauvegarder_donnees_enrichies"}
NLPSteps ==
    {"NLP.extract_advanced_features", "NLP.analyze_sentiment_advanced",
     "NLP.extract_keywords_tfidf", "NLP.generate_product_summary"}
AnomalySteps ==
    {"AD.detect_price_anomalies_statistical", "AD.detect_anomalies_isolation_forest",
     "AD.detect_spec_price_inconsistencies", "AD.flag_suspicious_products",
     "AD.generate_anomaly_report"}
AdvancedSteps ==
    {"AP.load_data", "AP.calculate_business_metrics", "AP.save_results",
     "AP.generate_master_report"}

\* C6: every record that left the Quality Gate is there exactly once and in
\* the same order in what each later stage holds and writes, and, when the run
\* is over, in the final saved collection -- also when a step of a later stage
\* has failed (the input files being there).
C6_RecordsPreserved ==
    /\ df /= <<>> => Keys(df) = survivors
    /\ cleaned_csv.exists => Keys(cleaned_csv.rows) = survivors
    /\ enriched_csv.exists => Keys(enriched_csv.rows) = survivors
    /\ advanced_csv.exists => Keys(advanced_csv.rows) = survivors
    /\ (pc = "done" /\ results.nettoyage = "True" /\ raised \cap LoadSteps = {})
           => advanced_csv.exists

\* C7: an unexpected exception in one step of the cleaning, the enrichment, the
\* anomaly engine or the business metrics does not end the batch: every other
\* step still runs and the final collection is written.
C7_BatchCompletes ==
    (pc = "done" /\ raised \cap (LoadSteps \cup {"AP.save_results"}) = {})
        => /\ (CleaningSteps \cup EnrichmentSteps \cup NLPSteps \cup AnomalySteps
                  \cup AdvancedSteps) \ raised \subseteq ran
           /\ advanced_csv.exists

\* The safe defaults of the columns of one step of the anomaly engine.
DefaultsOf(step, row) ==
    CASE step = "AD.detect_price_anomalies_statistical" ->
             /\ PriceAnomalyCols \subseteq cols
             /\ ~row.Anomalie_Prix_ZScore /\ ~row.Anomalie_Prix_IQR
             /\ row.Type_Anomalie_Prix = <<"Normal">>
      [] step = "AD.detect_anomalies_isolation_forest" ->
             /\ MLCols \subseteq cols
             /\ ~row.Anomalie_ML /\ row.Anomalie_Score_Normalized = 500
      [] step = "AD.detect_spec_price_inconsistencies" ->
             /\ InconsistencyCols \subseteq cols
             /\ row.Severite_Incoherence = 0
      [] step = "AD.flag_suspicious_products" ->
             /\ SuspectCols \subseteq cols
             /\ ~row.Produit_Suspect
      [] OTHER -> TRUE

\* C8: when a step of the anomaly engine has failed, the collection the engine
\* returns holds the columns of that step, filled with the safe defaults
\* (flags false, label "Normal", severity 0, normalized score 0.5).
C8_ColumnsBackFilled ==
    (pc = "AP.calculate_business_metrics" /\ raised \subseteq AnomalySteps) =>
        \A step \in raised : \A i \in Rows : DefaultsOf(step, df[i])


\* C9: once the multivariate step has run -- (a) without scikit-learn, or
\* without any feature column, every record has the flag false, the raw score
\* 0.0 and the normalized score 0.5; (b) with the forest fitted, the normalized
\* score is 0.5 for every record when all raw scores are equal and lies in
\* [0, 1] otherwise; (c) the engine goes on with the inconsistency rules, the
\* flagging and the report.
C9_MultivariateDefaults ==
    "AD.detect_anomalies_isolation_forest" \in ran =>
        /\ (~env.sklearn \/ features \cap cols = {}) =>
               \A i \in Rows :
                   /\ ~df[i].Anomalie_ML
                   /\ df[i].Anomalie_Score_ML = 0
                   /\ df[i].Anomalie_Score_Normalized = 500
        /\ (env.sklearn /\ features \cap cols /= {}) =>
               IF \A i, j \in Rows : df[i].Anomalie_Score_ML = df[j].Anomalie_Score_ML
               THEN \A i \in Rows : df[i].Anomalie_Score_Normalized = 500
               ELSE \A i \in Rows : /\ df[i].Anomalie_Score_Normalized >= 0
                                    /\ df[i].Anomalie_Score_Normalized <= 1000
        /\ MLCols \subseteq cols
        /\ pc \in {"AD.detect_spec_price_inconsistencies", "AD.flag_suspicious_products",
                   "AD.generate_anomaly_report", "AP.calculate_business_metrics",
                   "AP.save_results", "AP.generate_master_report", "done"}
        /\ pc = "done" =>
               {"AD.detect_spec_price_inconsistencies", "AD.flag_suspicious_products",
                "AD.generate_anomaly_report"} \subseteq ran

\* A run without scikit-learn that is over: several records, all with the
\* defaults, and the later steps of the engine have run.
C9_Witness ==
    /\ ~env.sklearn
    /\ pc = "done"
    /\ Len(df) >= 2
    /\ "AD.flag_suspicious_products" \in ran
    /\ \A i \in Rows : /\ ~df[i].Anomalie_ML
                       /\ df[i].Anomalie_Score_ML = 0
                       /\ df[i].Anomalie_Score_Normalized = 500


\* The run is over and the advanced stage has returned True and written its file.
RunCompleted == results.ia_avancee = "True" /\ advanced_csv.exists

-----------------------------------------------------------------------------
(* Two runs on one input *)

-----------------------------------------------------------------------------
(* Records without a price *)

\* The steps that read the price of a record.
PriceSteps ==
    {"DC.classifier_par_gamme", "FE.calculer_rapport_qualite_prix",
     "FE.detecter_anomalies_prix", "AD.detect_price_anomalies_statistical",
     "AD.detect_spec_price_inconsistencies", "AD.flag_suspicious_products"}

-----------------------------------------------------------------------------
(* Business metrics *)

\* The record is suspect / flagged by the forest / of one of the deal classes,
\* as the collection holds it (a column it lacks counts as not set).
IsSuspect(row) == Has("Produit_Suspect") /\ row.Produit_Suspect
IsFlaggedML(row) == Has("Anomalie_ML") /\ row.Anomalie_ML
DealClassIn(row, classes) == Has("Type_Affaire") /\ row.Type_Affaire \in classes

\* 100 - 30*[suspect] - 20*[ML flag] - 0.3*(100 - completeness)
\* + 10*[deal class Good or Excellent, and not suspect], in hundredths.
ConfidenceClaimed(row) ==
    10000
    - (IF IsSuspect(row) THEN 3000 ELSE 0)
    - (IF IsFlaggedML(row) THEN 2000 ELSE 0)
    - 3 * (1000 - (IF Has("Taux_Completude") THEN row.Taux_Completude ELSE 1000))
    + (IF DealClassIn(row, {"Bonne affaire", "Excellente affaire"}) /\ ~IsSuspect(row)
       THEN 1000 ELSE 0)

\* C15: once the business metrics are computed, Indice_Confiance of every
\* record is the claimed sum, rounded to one decimal and clamped to [0, 100];
\* the bonus of 10 is counted for the deal classes Good and Excellent only.
C15_ConfidenceFormula ==
    "AP.calculate_business_metrics" \in ran =>
        \A i \in Rows :
            df[i].Indice_Confiance =
                Max(0, Min(1000, RoundHalfEven(ConfidenceClaimed(df[i]), 10)))

\* The cascade of the recommendation, on the values the collection holds.
RecommendationOf(row) ==
    LET confiance == row.Indice_Confiance
        ratio == IF Has("RQP_Score") THEN row.RQP_Score ELSE 0
    IN  CASE IsSuspect(row) -> "Non recommande - Verifier"
          [] ~IsSuspect(row) /\ confiance >= 800 /\ ratio > 1500 -> "Tres recommande"
          [] ~IsSuspect(row) /\ ~(confiance >= 800 /\ ratio > 1500)
               /\ confiance >= 600 /\ ratio > 1000 -> "Recommande"
          [] ~IsSuspect(row) /\ ~(confiance >= 600 /\ ratio > 1000)
               /\ confiance >= 400 -> "A considerer"
          [] OTHER -> "Non recommande"

\* C16: once the business metrics are computed, the recommendation of every
\* record is the first match of: suspect -> "Non recommande - Verifier";
\* confidence >= 80 and value ratio > 15 -> "Tres recommande"; confidence >= 60
\* and value ratio > 10 -> "Recommande"; confidence >= 40 -> "A considerer";
\* else "Non recommande".  A suspect record holds none of the three
\* recommending texts.
C16_RecommendationCascade ==
    "AP.calculate_business_metrics" \in ran =>
        \A i \in Rows :
            /\ df[i].Recommandation_Achat = RecommendationOf(df[i])
            /\ IsSuspect(df[i]) =>
                   df[i].Recommandation_Achat
                       \notin {"Tres recommande", "Recommande", "A considerer"}

\* A suspect record whose confidence and value ratio would recommend it, next
\* to a record that is highly recommended.
C16_Witness ==
    /\ "AP.calculate_business_metrics" \in ran
    /\ \E i \in Rows :
         /\ IsSuspect(df[i])
         /\ df[i].Indice_Confiance >= 600 /\ df[i].RQP_Score > 1000
         /\ df[i].Recommandation_Achat = "Non recommande - Verifier"
    /\ \E j \in Rows : df[j].Recommandation_Achat = "Tres recommande"

-----------------------------------------------------------------------------
(* Inconsistencies between specifications and price *)

IssuesOf(row) == {row.Incoherence_Spec_Prix[j] : j \in 1..Len(row.Incoherence_Spec_Prix)}

\* The severity each issue text stands for.
IssueSeverity(issue) ==
    CASE issue = "Haute perf mais prix bas" -> 3
      [] issue = "CPU premium sous-evalue" -> 3
      [] issue = "32GB RAM sous-evalue" -> 2
      [] issue = "Perf faible mais prix eleve" -> 2
      [] issue = "CPU entree surevalue" -> 2
      [] issue = "Reduction suspecte (>70%)" -> 1
      [] OTHER -> 0

IssueTexts ==
    {"Haute perf mais prix bas", "CPU premium sous-evalue", "32GB RAM sous-evalue",
     "Perf faible mais prix eleve", "CPU entree surevalue", "Reduction suspecte (>70%)"}

SeverityOfIssues(issues) ==
    SumSeq([j \in 1..Len(issues) |-> IssueSeverity(issues[j])])

HasPrice(row) == Has("Prix_Actuel_Clean") /\ notna(row.Prix_Actuel_Clean)

\* C18: once the inconsistency rules have run, a record with a price holds
\* each of the five issues exactly when its condition holds (performance
\* index >= 80 and price < 3000; premium CPU and price < 2500; RAM >= 32 and
\* price < 4000; performance index <= 40 and price > 4000; old price present,
\* > 0 and price / old price < 0.3); its severity is the sum of the severities
\* of the issues it holds, and it is "Coherent" exactly when it holds none.
C18_IndependentRules ==
    Has("Incoherence_Spec_Prix") =>
        \A i \in Rows :
            HasPrice(df[i]) =>
                LET row == df[i]
                    prix == Val(row.Prix_Actuel_Clean)
                    issues == IssuesOf(row)
                    perfHigh == Has("Performance_Index") /\ row.Performance_Index >= 800
                    perfLow == Has("Performance_Index") /\ row.Performance_Index <= 400
                    premium == Has("CPU") /\ row.CPU \in {"i7", "i9", "Ryzen 7", "Ryzen 9"}
                    bigRam == Has("RAM_GB") /\ notna(row.RAM_GB) /\ Val(row.RAM_GB) >= 32
                    deepCut == /\ Has("Ancien_Prix_Clean") /\ notna(row.Ancien_Prix_Clean)
                               /\ Val(row.Ancien_Prix_Clean) > 0
                               /\ 10 * prix < 3 * Val(row.Ancien_Prix_Clean)
                IN  /\ "Haute perf mais prix bas" \in issues <=> (perfHigh /\ prix < 3000)
                    /\ "CPU premium sous-evalue" \in issues <=> (premium /\ prix < 2500)
                    /\ "32GB RAM sous-evalue" \in issues <=> (bigRam /\ prix < 4000)
                    /\ "Perf faible mais prix eleve" \in issues <=> (perfLow /\ prix > 4000)
                    /\ "Reduction suspecte (>70%)" \in issues <=> deepCut
                    /\ row.Severite_Incoherence =
                           SeverityOfIssues(SelectSeq(row.Incoherence_Spec_Prix,
                                                      LAMBDA t : t \in IssueTexts))
                    /\ Cardinality(issues \cap IssueTexts) =
                           Len(SelectSeq(row.Incoherence_Spec_Prix,
                                         LAMBDA t : t \in IssueTexts))
                    /\ row.Incoherence_Spec_Prix = <<"Coherent">>
                           <=> issues \cap IssueTexts = {}

\* A record on which four rules fire at once: an i9 with 32 GB at 400 Dhs,
\* down from 10000 Dhs (severity 3 + 3 + 2 + 1 = 9).
C18_Witness ==
    /\ Has("Incoherence_Spec_Prix")
    /\ \E i \in Rows :
         /\ HasPrice(df[i])
         /\ df[i].Incoherence_Spec_Prix =
                <<"Haute perf mais prix bas", "CPU premium sous-evalue",
                  "32GB RAM sous-evalue", "Reduction suspecte (>70%)">>
         /\ df[i].Severite_Incoherence = 9

\* The CPU families that make a record entry-level for determiner_gamme.
EntryCpus == {"Celeron", "Pentium", "i3"}

\* C19: once the inconsistency rules have run, every record with a price
\* above 3000 and an entry CPU (Celeron, Pentium or i3, the set of the tier
\* classifier) holds the issue "CPU entree surevalue", which adds 2 to its
\* severity.
C19_EntryCpuOverpriced ==
    Has("Incoherence_Spec_Prix") =>
        \A i \in Rows :
            (/\ HasPrice(df[i]) /\ Val(df[i].Prix_Actuel_Clean) > 3000
             /\ Has("CPU") /\ df[i].CPU \in EntryCpus) =>
                /\ "CPU entree surevalue" \in IssuesOf(df[i])
                /\ df[i].Severite_Incoherence >= 2

-----------------------------------------------------------------------------
(* Deal classes *)

\* The value ratios of the collection, and its quantiles p75 (times 4) and
\* p90 (times 10).
ValueRatios == [i \in Rows |-> df[i].RQP_Score]
P75x4 == QuantileTimes(ValueRatios, 3, 4)
P90x10 == QuantileTimes(ValueRatios, 9, 10)

\* C20: once the deals are classified, every record holds the first match of:
\* value ratio >= p90 and quality score >= 70 -> "Excellente affaire"; value
\* ratio >= p75 and quality score >= 60 -> "Bonne affaire"; discount >= 40 and
\* quality score >= 50 -> "Promotion interessante"; else "Standard", with p75
\* and p90 the quantiles of the value ratios of the whole collection.  Hence
\* an Excellent record has a quality score >= 70, a Good one >= 60, a Promo one
\* >= 50, and a Promo record meets neither the Excellent nor the Good test.
C20_DealCascade ==
    "FE.detecter_bonnes_affaires" \in ran =>
        \A i \in Rows :
            LET row == df[i]
                excellent == row.RQP_Score * 10 >= P90x10 /\ row.Score_Qualite >= 700
                good == row.RQP_Score * 4 >= P75x4 /\ row.Score_Qualite >= 600
                promo == row.Reduction_Reelle >= 4000 /\ row.Score_Qualite >= 500
            IN  /\ row.Type_Affaire = "Excellente affaire" <=> excellent
                /\ row.Type_Affaire = "Bonne affaire" <=> (~excellent /\ good)
                /\ row.Type_Affaire = "Promotion interessante"
                       <=> (~excellent /\ ~good /\ promo)
                /\ row.Type_Affaire = "Standard" <=> (~excellent /\ ~good /\ ~promo)
                /\ row.Type_Affaire = "Excellente affaire" => row.Score_Qualite >= 700
                /\ row.Type_Affaire = "Bonne affaire" => row.Score_Qualite >= 600
                /\ row.Type_Affaire = "Promotion interessante" => row.Score_Qualite >= 500

\* A batch in which the quantiles decide: three records of one quality score
\* (>= 70), one Excellent, one Good and one Standard.
C20_Witness ==
    /\ "FE.detecter_bonnes_affaires" \in ran
    /\ \E i, j, k \in Rows :
         /\ df[i].Score_Qualite = df[j].Score_Qualite
         /\ df[j].Score_Qualite = df[k].Score_Qualite
         /\ df[i].Score_Qualite >= 700
         /\ df[i].Type_Affaire = "Excellente affaire"
         /\ df[j].Type_Affaire = "Bonne affaire"
         /\ df[k].Type_Affaire = "Standard"

-----------------------------------------------------------------------------
(* Field Normalizer and Quality Gate *)

\* The row of the raw file that a row of the collection was read from (the
\* keys of a raw file are the positions of its rows).
RawOf(row) == input.df[row.key]

HasNoDigit(cell) == IF isna(cell) THEN TRUE ELSE \A k \in 1..Len(Val(cell)) : ~IsDigit(Val(cell)[k])

\* C14: parsing the prices raises nothing; a price text without a digit
\* ("N/A", the empty text, a missing cell) gives a missing price, never zero;
\* "1,389.00 Dhs" gives 1389.00; a price that is present is >= 0.
C14_PriceParsing ==
    /\ "DC.nettoyer_prix" \notin raised
    /\ Has("Prix_Actuel_Clean") =>
           \A i \in Rows :
               \A pair \in {<<RawOf(df[i]).Prix_Actuel, df[i].Prix_Actuel_Clean>>,
                            <<RawOf(df[i]).Ancien_Prix, df[i].Ancien_Prix_Clean>>} :
                   /\ HasNoDigit(pair[1]) => isna(pair[2])
                   /\ pair[1] = Some(PriceExample) => pair[2] = Some([num |-> 1389,
                       den |-> 1])
                   /\ notna(pair[2]) => Val(pair[2]).num >= 0 /\ Val(pair[2]).den > 0

\* The file of the examples after nettoyer_prix: "1,389.00 Dhs" read as
\* 1389, and "N/A", the empty text and the missing cell read as no price.
C14_Witness ==
    /\ "DC.nettoyer_prix" \in ran
    /\ Len(df) = 4
    /\ RawOf(df[1]).Prix_Actuel = Some(PriceExample)
    /\ df[1].Prix_Actuel_Clean = Some([num |-> 1389, den |-> 1])
    /\ RawOf(df[2]).Prix_Actuel = Some(<<"N", "/", "A">>) /\ isna(df[2].Prix_Actuel_Clean)
    /\ RawOf(df[3]).Prix_Actuel = Some(<<>>) /\ isna(df[3].Prix_Actuel_Clean)
    /\ RawOf(df[4]).Prix_Actuel = None /\ isna(df[4].Prix_Actuel_Clean)

\* The text is a number, "out of" and a number: digits, possibly a dot and
\* further digits, white space, "out of", white space, digits.
IsRatingFormat(cell) ==
    IF isna(cell) THEN FALSE
    ELSE LET t == Val(cell)
             e1 == RunEnd(t, 1, IsDigit)
             e2 == IF e1 <= Len(t) /\ t[e1] = "." THEN RunEnd(t, e1 + 1, IsDigit) ELSE e1
             e3 == RunEnd(t, e2, IsSpace)
             e4 == RunEnd(t, e3 + 6, IsSpace)
         IN  /\ e1 > 1
             /\ e2 /= e1 + 1
             /\ StartsAt(t, e3, <<"o", "u", "t", " ", "o", "f">>)
             /\ e4 <= Len(t)
             /\ RunEnd(t, e4, IsDigit) = Len(t) + 1

\* C17: once the ratings are parsed, the rating of every record is missing or
\* a number in [0, 5], and it is missing when the rating text is not of the
\* form "<number> out of N".
C17_RatingRange ==
    Has("Rating_Clean") =>
        \A i \in Rows :
            /\ notna(df[i].Rating_Clean) =>
                   /\ Val(df[i].Rating_Clean).num >= 0
                   /\ Val(df[i].Rating_Clean).num <= 5 * Val(df[i].Rating_Clean).den
            /\ ~IsRatingFormat(RawOf(df[i]).Rating) => isna(df[i].Rating_Clean)

\* The accessories of a raw file, and its rows that repeat the image
\* reference of an earlier row that is no accessory.
AccessoriesOf(raw) == {i \in 1..Len(raw) : est_accessoire(read_cell(raw[i].Titre))}
RepeatsOf(raw) ==
    LET laptops == (1..Len(raw)) \ AccessoriesOf(raw)
    IN  {i \in laptops :
            /\ notna(raw[i].Image_URL)
            /\ \E j \in laptops : j < i /\ raw[j].Image_URL = raw[i].Image_URL}

\* C12: once the accessories and the duplicates are removed, the number of
\* rows read is the number of accessories dropped plus the number of
\* duplicates dropped plus the number of rows left, the two numbers dropped
\* being those of stats; of 100 rows with 5 accessories and 3 rows that repeat
\* the image reference of an earlier row that is no accessory, 92 are left.
C12_QualityGate ==
    "DC.supprimer_doublons" \in ran =>
        /\ stats.produits_initiaux = Len(input.df)
        /\ Len(input.df) = stats.accessoires_filtres + stats.doublons_supprimes + Len(df)
        /\ stats.accessoires_filtres = Cardinality(AccessoriesOf(input.df))
        /\ (/\ Len(input.df) = 100
            /\ Cardinality(AccessoriesOf(input.df)) = 5
            /\ Cardinality(RepeatsOf(input.df)) = 3) => Len(df) = 92

\* The count of the rows, without the example of the 100 rows: rows read =
\* accessories dropped + duplicates dropped + rows left.
GateAccounting ==
    "DC.supprimer_doublons" \in ran =>
        /\ stats.produits_initiaux = Len(input.df)
        /\ Len(input.df) = stats.accessoires_filtres + stats.doublons_supprimes + Len(df)
        /\ stats.accessoires_filtres = Cardinality(AccessoriesOf(input.df))

-----------------------------------------------------------------------------
(* The quantiles of the deal classes *)

\* The value ratios of the records that have one: those with a price that is
\* present and above zero.
HasRatio(row) == notna(row.Prix_Actuel_Clean) /\ Val(row.Prix_Actuel_Clean) > 0
DefinedRatios ==
    LET rows == SelectSeq(df, HasRatio)
    IN  [k \in 1..Len(rows) |-> rows[k].RQP_Score]

\* C21: the deal classes are those of the cascade taken with p75 and p90 of
\* the value ratios of the records that have a price above zero only; the
\* records without a price (value ratio 0) do not enter the quantiles.
C21_QuantilesOverDefined ==
    "FE.detecter_bonnes_affaires" \in ran =>
        \A i \in Rows :
            LET row == df[i]
                excellent == /\ DefinedRatios /= <<>>
                             /\ row.RQP_Score * 10 >= QuantileTimes(DefinedRatios, 9, 10)
                             /\ row.Score_Qualite >= 700
                good == /\ DefinedRatios /= <<>>
                        /\ row.RQP_Score * 4 >= QuantileTimes(DefinedRatios, 3, 4)
                        /\ row.Score_Qualite >= 600
            IN  /\ row.Type_Affaire = "Excellente affaire" <=> excellent
                /\ row.Type_Affaire = "Bonne affaire" <=> (~excellent /\ good)

-----------------------------------------------------------------------------
(* The duplicate filter *)

\* The keys, in the order of the raw file, of the rows that are no accessory
\* and either have no image reference or are the first with theirs.
FirstOfReference(raw) ==
    LET laptops == (1..Len(raw)) \ AccessoriesOf(raw)
        kept == {i \in laptops :
                    \/ isna(raw[i].Image_URL)
                    \/ \A j \in laptops : j < i => raw[j].Image_URL /= raw[i].Image_URL}
    IN  Keys(KeepRows(raw, kept))

\* C22: once the duplicates are removed, the rows left are, of the rows that
\* passed the accessory filter, the first of every image reference and every
\* row without an image reference; no two rows left share an image
\* reference.
C22_FirstPerReference ==
    "DC.supprimer_doublons" \in ran =>
        /\ Keys(df) = FirstOfReference(input.df)
        /\ \A i, j \in Rows :
               (i /= j /\ notna(df[i].Image_URL)) => df[i].Image_URL /= df[j].Image_URL

-----------------------------------------------------------------------------
(* The quality score *)

\* The points of the condition, as the specification lists them.
ConditionPoints(etat) ==
    CASE etat = "Neuf" -> 10
      [] etat = "Remis a neuf" -> 7
      [] etat = "Occasion" -> 4
      [] etat = "Non specifie" -> 2

\* The quality score in tenths, of a record whose discount term is
\* discount (hundredths of a percent): the weighted sum, in twentieths of
\* a tenth, rounded to one decimal and held in [0, 100].
QualityWith(row, discount) ==
    LET perf == 8 * row.Performance_Index
        rating == IF notna(row.Rating_Clean) THEN 120 * Val(row.Rating_Clean) ELSE 0
        compl == 3 * row.Taux_Completude
        etat == 200 * ConditionPoints(row.Etat_Produit)
        twentieths == 10 * (perf + rating + compl + etat) + Min(discount, 10000)
    IN  Max(0, Min(1000, RoundHalfEven(twentieths, 200)))

\* C23 as stated: the quality score of every record is the clamped sum with
\* the discount term min(discount_pct / 20, 5), records of negative discount
\* included.
C23_QualityFormula ==
    Has("Score_Qualite") =>
        \A i \in Rows : df[i].Score_Qualite = QualityWith(df[i], df[i].Reduction_Reelle)

\* C23, amended: the discount term min(discount_pct / 20, 5) counts for the
\* records of positive discount only; a record whose discount is zero or
\* negative gets no discount term.
C23_QualityFormulaPositiveDiscount ==
    Has("Score_Qualite") =>
        \A i \in Rows :
            df[i].Score_Qualite = QualityWith(df[i], Max(df[i].Reduction_Reelle, 0))

\* A record priced above its old price whose quality score, below 100, is the
\* sum without discount term, and above the sum with the negative term.
C23_Witness ==
    /\ Has("Score_Qualite")
    /\ \E i \in Rows :
         /\ df[i].Reduction_Reelle < 0
         /\ df[i].Score_Qualite < 1000
         /\ df[i].Score_Qualite = QualityWith(df[i], 0)
         /\ df[i].Score_Qualite > QualityWith(df[i], df[i].Reduction_Reelle)

-----------------------------------------------------------------------------
(* The processor family and the storage of a title *)

IsWordChar(c) ==
    \/ IsDigit(c)
    \/ \E k \in 1..Len(UpperLetters) : UpperLetters[k] = c \/ LowerLetters[k] = c

\* pat stands in text as a word of its own: no letter or digit touches it.
OccursAsWord(text, pat) ==
    \E i \in 1..Len(text) :
        /\ StartsAt(text, i, pat)
        /\ (IF i = 1 THEN TRUE ELSE ~IsWordChar(text[i - 1]))
        /\ (IF i + Len(pat) > Len(text) THEN TRUE ELSE ~IsWordChar(text[i + Len(pat)]))

\* The families whose token stands in the title as a word.
WordFamilies(titre) ==
    {cpu_patterns[k][2] :
        k \in {j \in 1..Len(cpu_patterns) :
                  OccursAsWord(upper(str(titre)), cpu_patterns[j][1])}}

\* The class of a family: 9, 7, 5 and 3 for the Intel and AMD families, below
\* them Celeron and Pentium.
FamilyTier(cpu) ==
    CASE cpu \in {"i9", "Ryzen 9"} -> 9
      [] cpu \in {"i7", "Ryzen 7"} -> 7
      [] cpu \in {"i5", "Ryzen 5"} -> 5
      [] cpu \in {"i3", "Ryzen 3"} -> 3
      [] cpu \in {"Celeron", "Pentium"} -> 1
      [] OTHER -> 0

\* C24: the processor family of a record is one whose token stands in the
\* title as a word of its own ("i3" inside "i30" is none), and of the families
\* in the title one of the highest class ("Ryzen 9" before "i3"); a title
\* without such a token gives "Autre".
C24_CpuWordBoundaries ==
    "DC.extraire_specs_techniques" \in ran =>
        \A i \in Rows :
            LET families == WordFamilies(df[i].Titre)
            IN  IF families = {} THEN df[i].CPU = "Autre"
                ELSE /\ df[i].CPU \in families
                     /\ \A f \in families : FamilyTier(df[i].CPU) >= FamilyTier(f)

\* The sizes, in GB, that a title in upper case states with a unit (GB or Go,
\* TB or To, the latter times 1024) followed by one of the words; every
\* size stated with a unit when there is no word to follow.
StatedSizes(U, words) ==
    LET unit_at(i) == RunEnd(U, RunEnd(U, i, IsDigit), IsSpace)
        giga(i) == StartsAt(U, unit_at(i), <<"G", "B">>) \/ StartsAt(U, unit_at(i),
            <<"G", "O">>)
        tera(i) == StartsAt(U, unit_at(i), <<"T", "B">>) \/ StartsAt(U, unit_at(i),
            <<"T", "O">>)
        followed(i) ==
            \/ words = {}
            \/ \E w \in words : StartsAt(U, RunEnd(U, unit_at(i) + 2, IsSpace), w)
        number(i) == NumOf(SubSeq(U, i, RunEnd(U, i, IsDigit) - 1))
    IN  {IF tera(i) THEN 1024 * number(i) ELSE number(i) :
            i \in {h \in DigitHeads(U) : (giga(h) \/ tera(h)) /\ followed(h)}}

\* C25: a title that states an SSD size and an HDD size gives their sum, a
\* title that states one of the two gives that size, and any storage found
\* in another title is a size the title states; a size in TB or To counts
\* 1024 times, a size in GB or Go as it is written.
C25_StorageSizes ==
    "DC.extraire_specs_techniques" \in ran =>
        \A i \in Rows :
            LET U == upper(str(df[i].Titre))
                ssd == StatedSizes(U, {<<"S", "S", "D">>})
                hdd == StatedSizes(U, {<<"H", "D", "D">>})
                found == df[i].Stockage_GB
            IN  CASE ssd /= {} /\ hdd /= {} ->
                         \E s \in ssd, h \in hdd : found = Some(s + h)
                  [] ssd /= {} /\ hdd = {} -> \E s \in ssd : found = Some(s)
                  [] ssd = {} /\ hdd /= {} -> \E h \in hdd : found = Some(h)
                  [] OTHER -> isna(found) \/ Val(found) \in StatedSizes(U, {})

-----------------------------------------------------------------------------
(* The recommendation of the records that are not suspect *)

\* C29: once the business metrics are computed, no record is given the plain
\* "Non recommande": every record that is not suspect has a confidence index
\* of 40 or more and is "Tres recommande", "Recommande" or "A considerer".
C29_NeverPlainNotRecommended ==
    "AP.calculate_business_metrics" \in ran =>
        \A i \in Rows :
            /\ df[i].Recommandation_Achat /= "Non recommande"
            /\ ~IsSuspect(df[i]) =>
                   /\ df[i].Indice_Confiance >= 400
                   /\ df[i].Recommandation_Achat
                          \in {"Tres recommande", "Recommande", "A considerer"}

\* A record that is not suspect at the lowest completeness it can have, to be
\* considered with a confidence index of 85.
C29_Witness ==
    /\ "AP.calculate_business_metrics" \in ran
    /\ \E i \in Rows :
         /\ ~IsSuspect(df[i])
         /\ df[i].Taux_Completude = 500
         /\ df[i].Indice_Confiance = 850
         /\ df[i].Recommandation_Achat = "A considerer"

-----------------------------------------------------------------------------
(* The completeness *)

\* How many of price, RAM, storage and rating a record holds.
OptionalFilled(row) ==
    Cardinality({c \in {"Prix_Actuel_Clean", "RAM_GB", "Stockage_GB", "Rating_Clean"} :
                    notna(row[c])})

\* C30: the brand and the processor family of every record are set, and its
\* completeness is 100 * k / 6 to one decimal, k being 2 plus the number of
\* price, RAM, storage and rating it holds: one of 33.3, 50.0, 66.7, 83.3 and
\* 100.0.  The reason "Donnees incompletes" is given exactly to the records
\* that hold none of the four.
C30_Completeness ==
    Has("Taux_Completude") =>
        \A i \in Rows :
            /\ df[i].Marque /= NaN /\ df[i].CPU /= NaN
            /\ 6 * df[i].Taux_Completude - 3 <= 1000 * (2 + OptionalFilled(df[i]))
            /\ 1000 * (2 + OptionalFilled(df[i])) <= 6 * df[i].Taux_Completude + 3
            /\ df[i].Taux_Completude \in {333, 500, 667, 833, 1000}
            /\ "AD.flag_suspicious_products" \in ran =>
                   ((\E k \in 1..Len(df[i].Raisons_Suspicion) :
                        df[i].Raisons_Suspicion[k] = "Donnees incompletes")
                    <=> OptionalFilled(df[i]) = 0)

\* A record with none of the four fields, complete to 33.3 percent and
\* suspect for it, next to a record with all of them.
C30_Witness ==
    /\ "AD.flag_suspicious_products" \in ran
    /\ \E i \in Rows :
         /\ OptionalFilled(df[i]) = 0
         /\ df[i].Taux_Completude = 333
         /\ df[i].Produit_Suspect
         /\ df[i].Raisons_Suspicion = <<"Donnees incompletes">>

-----------------------------------------------------------------------------
(* The stages of a run *)

StageOrder ==
    <<"main.etape_1_collecte", "main.etape_2a_nettoyage", "main.etape_2b_enrichissement",
      "main.etape_2c_ia_avancee", "main.etape_3_base_de_donnees",
      "main.etape_4_visualisation">>

Called(stage) == \E k \in 1..Len(called) : called[k] = stage
PlaceOf(stage) == CHOOSE k \in 1..Len(StageOrder) : StageOrder[k] = stage

\* The stages are called in their order, each at most once; a failed scraping
\* ends the run; the enrichment and the database stage are called after a
\* successful cleaning only, the advanced stage after a successful enrichment
\* only; a run that is over after a successful scraping has called the
\* visualisation.
StagesGated ==
    /\ \A j, k \in 1..Len(called) :
           j < k => PlaceOf(called[j]) < PlaceOf(called[k])
    /\ results.scraping = "False" =>
           pc = "done" /\ called = <<"main.etape_1_collecte">>
    /\ Called("main.etape_2a_nettoyage") => results.scraping = "True"
    /\ Called("main.etape_2b_enrichissement") => results.nettoyage = "True"
    /\ Called("main.etape_2c_ia_avancee") => results.enrichissement = "True"
    /\ Called("main.etape_3_base_de_donnees") => results.nettoyage = "True"
    /\ (pc = "done" /\ results.scraping = "True") =>
           Called("main.etape_4_visualisation")

\* C26: the stages run in sequence and gated (a failed scraping ends the run,
\* enrichment and database load only after a successful cleaning, the
\* advanced stage only after a successful enrichment), and once the scraping
\* has succeeded the visualisation is called.
C26_StagesInSequence ==
    /\ []StagesGated
    /\ (results.scraping = "True") ~> Called("main.etape_4_visualisation")

\* A run whose cleaning failed: enrichment, advanced stage and database were
\* skipped and the visualisation was called.
C26_Witness ==
    /\ pc = "done"
    /\ called = <<"main.etape_1_collecte", "main.etape_2a_nettoyage",
                  "main.etape_4_visualisation">>
    /\ results = [scraping |-> "True", nettoyage |-> "False", enrichissement |-> "False",
                  ia_avancee |-> "False", database |-> "False",
                  visualisation |-> "True"]

\* C27: the file the database stage loads was written by this run.
C27_LoadsFileOfThisRun ==
    notna(loaded) => Val(loaded).file.run = run

-----------------------------------------------------------------------------
(* The attempts of the scraper *)

\* The loads of page p so far, in their order, and the products of page p in
\* self.products.
LoadsOf(p) == SelectSeq(history, LAMBDA h : h.page = p)
ProductsOf(p) == SelectSeq(scraper.products, LAMBDA x : x.page = p)
PageIsOver(p) == p < page \/ pc /= "RPA.scraper_page"

\* C28: a page is loaded at most retry_count times, again after a timeout or
\* an exception while attempts remain and never after a successful load; the
\* products kept for the page are those of its first successful load, none
\* after a last failure; no exception leaves scraper_page, every page is
\* gone through in turn, and at the end the browser that was opened is
\* closed.
C28_RetriesAndPages ==
    /\ \A p \in 1..page :
           LET loads == LoadsOf(p)
               n == Len(loads)
           IN  /\ n <= scraper.retry_count
               /\ \A k \in 1..n : loads[k].attempt = k
               /\ \A k \in 1..(n - 1) : loads[k].outcome /= "products"
               /\ PageIsOver(p) =>
                      IF n > 0 /\ loads[n].outcome = "products"
                      THEN ProductsOf(p) = page_products(p, n, loads[n].found)
                      ELSE n = scraper.retry_count /\ ProductsOf(p) = <<>>
               /\ ~PageIsOver(p) => ProductsOf(p) = <<>> /\ attempt = n + 1
    /\ \A k \in 1..Len(history) : history[k].page \in 1..page
    /\ scraper.driver = "open" => raised = {}
    /\ pc = "done" =>
           /\ scraper.driver /= "open"
           /\ raised = {} => page = scraper.pages_a_scraper /\ scraper.driver = "closed"

\* A run over two pages with two attempts each: the first page timed out and
\* then raised, and gave nothing; the second raised and then gave a product;
\* the browser is closed.
C28_Witness ==
    /\ pc = "done"
    /\ scraper.driver = "closed"
    /\ scraper.retry_count = 2
    /\ history = <<[page |-> 1, attempt |-> 1, outcome |-> "timeout", found |-> 0],
                   [page |-> 1, attempt |-> 2, outcome |-> "exception", found |-> 0],
                   [page |-> 2, attempt |-> 1, outcome |-> "exception", found |-> 0],
                   [page |-> 2, attempt |-> 2, outcome |-> "products", found |-> 1]>>
    /\ scraper.products = <<[page |-> 2, attempt |-> 2, item |-> 1]>>

=============================================================================
